---- MODULE Spec2Model ----
(***************************************************************************)
(* Model of the masu report ingestion and reconciliation engine:           *)
(*   - AWSReportProcessor.process(): row transformer, in-run identity      *)
(*     caches, staged bulk load and merge-upsert of line items;            *)
(*   - AWSReportDownloader.download_report(): manifest-driven conditional  *)
(*     download with ETag tracking;                                        *)
(*   - AWSReportDBCleaner.purge_expired_report_data(): expiration purge.   *)
(***************************************************************************)
EXTENDS Integers, Sequences, FiniteSets, TLC

(***************************************************************************)
(* Bounds of the model.                                                    *)
(***************************************************************************)
\* longest report file, in rows
MaxRows == 2
\* largest REPORT_PROCESSING_BATCH_SIZE a run is configured with
MaxBatch == 2

(***************************************************************************)
(* Values.                                                                 *)
(***************************************************************************)
\* Python None where an identifier is expected (identifiers start at 1)
NoId == 0

\* the transaction id of committed row versions
Committed == "committed"

\* processor instances (one processing run each)
Procs == {"A", "B"}

\* a Python dict with no entries
EmptyMap == << >>

\* dict[key] = value
Put(map, key, value) == (key :> value) @@ map

(***************************************************************************)
(* Report rows.  A row is one csv.DictReader record; the fields are the    *)
(* CUR columns the processor reads.  identity/TimeInterval is a sequence   *)
(* of tokens so that the split on "/" is computed, not assumed.            *)
(***************************************************************************)
BaseRow ==
    [ bill_type    |-> "Anniversary",        \* bill/BillType
      payer        |-> "acct1",              \* bill/PayerAccountId
      period       |-> 1,                    \* bill/BillingPeriodStartDate
      interval     |-> << "t1", "/", "t2" >>,\* identity/TimeInterval
      sku          |-> "sku1",               \* product/sku
      pname        |-> "EC2",                \* product/ProductName
      region       |-> "us",                 \* product/region
      itype        |-> "m4",                 \* product/instanceType
      term         |-> "OnDemand",           \* pricing/term
      unit         |-> "Hrs",                \* pricing/unit
      rate         |-> "0.1",                \* pricing/publicOnDemandRate
      arn          |-> "",                   \* reservation/ReservationARN
      rcount       |-> "",                   \* reservation/NumberOfReservations
      li_type      |-> "Usage",              \* lineItem/LineItemType
      usage_type   |-> "BoxUsage",           \* lineItem/UsageType
      resource_id  |-> "i-1",                \* lineItem/ResourceId
      invoice_id   |-> "",                   \* bill/InvoiceId
      tags         |-> { << "resourceTags/user:env", "prod" >> } ]

\* rows that agree with BaseRow on every lineItem/ and bill/ column and
\* differ in a tag column, and in the product they name
RowRetagged == [BaseRow EXCEPT !.tags = { << "resourceTags/user:env", "test" >> }]
RowOtherSku == [BaseRow EXCEPT !.sku = "sku2"]

\* the same logical line item after the bill was finalized
RowInvoiced == [BaseRow EXCEPT !.invoice_id = "inv1"]

\* another line item of the same cost entry
RowOtherUsage == [BaseRow EXCEPT !.usage_type = "DataTransfer", !.tags = {}]

\* a later interval of the same bill, with a reservation
RowReserved ==
    [BaseRow EXCEPT !.interval = << "t2", "/", "t3" >>,
                    !.arn = "arn1", !.rcount = "1",
                    !.term = "Reserved"]

\* the finalizing row of that reservation
RowRIFee ==
    [BaseRow EXCEPT !.interval = << "t2", "/", "t3" >>,
                    !.arn = "arn1", !.rcount = "2", !.li_type = "RIFee",
                    !.sku = "", !.pname = "", !.region = "", !.itype = "",
                    !.term = "", !.unit = "", !.rate = ""]

\* a later finalizing row of that reservation, its type in capitals
RowRIFeeUpper == [RowRIFee EXCEPT !.li_type = "RIFEE", !.rcount = "3"]

\* a row with the product and pricing keys of BaseRow and other attributes
RowRetyped == [BaseRow EXCEPT !.itype = "m5", !.rate = "0.2", !.usage_type = "Retyped"]

\* a row of another payer's bill, of a later billing period
RowOtherBill ==
    [BaseRow EXCEPT !.payer = "acct2", !.period = 2,
                    !.sku = "", !.pname = "", !.region = "", !.itype = "",
                    !.usage_type = "Tax"]

Rows == { BaseRow, RowInvoiced, RowOtherUsage, RowOtherBill }

\* a row whose identity/TimeInterval has no "/"
RowMalformed == [BaseRow EXCEPT !.interval = << "t1" >>]

\* rows whose identity/TimeInterval is empty, and has two "/"
RowNoInterval == [BaseRow EXCEPT !.interval = << >>]
RowThreeParts == [BaseRow EXCEPT !.interval = << "t1", "/", "t2", "/", "t3" >>]

\* a row whose product, pricing and reservation carry attributes but none
\* of the fields their keys are made of, and a row that carries no product,
\* pricing or reservation field at all
RowKeyless ==
    [BaseRow EXCEPT !.sku = "", !.pname = "", !.region = "",
                    !.term = "", !.unit = "", !.rcount = "1"]
RowBare ==
    [BaseRow EXCEPT !.sku = "", !.pname = "", !.region = "", !.itype = "",
                    !.term = "", !.unit = "", !.rate = "",
                    !.usage_type = "Tax"]

\* the contents a report file can have: the non-empty sequences of at most
\* MaxRows rows
Contents ==
    UNION { [1..n -> Rows] : n \in 1..MaxRows } \cup { << BaseRow, RowMalformed >> }

\* the file system: the report files by path, one path per content
RECURSIVE Enumerate(_)
Enumerate(S) ==
    IF S = {} THEN << >>
    ELSE LET x == CHOOSE y \in S : TRUE
         IN  << x >> \o Enumerate(S \ {x})

\* two rows of one cost entry whose usage type and resource id differ and
\* hold the separator of the hash string
RowColonLeft == [BaseRow EXCEPT !.usage_type = "Box:Usage", !.resource_id = "i-1"]
RowColonRight == [BaseRow EXCEPT !.usage_type = "Box", !.resource_id = "Usage:i-1"]

\* files of particular interest: three rows of one bill and one interval of
\* which two differ in the invoice id only, in two orders; the two rows
\* with the separator; a reservation and its finalizing row; a row that
\* does not split into start and end between two rows that do; a row
\* with attributes under empty keys and a row without any; a reservation
\* and two finalizing rows; two rows of one product and pricing with
\* different attributes
MaxExampleRows == 3
Examples ==
    << << BaseRow, RowInvoiced, RowOtherUsage >>,
       << BaseRow, RowOtherUsage, RowInvoiced >>,
       << RowColonLeft, RowColonRight >>,
       << RowReserved, RowRIFee >>,
       << BaseRow, RowMalformed, RowOtherUsage >>,
       << BaseRow, RowNoInterval, RowOtherUsage >>,
       << BaseRow, RowThreeParts, RowOtherUsage >>,
       << RowKeyless, RowBare >>,
       << RowReserved, RowRIFee, RowRIFeeUpper >>,
       << BaseRow, RowRetyped >>,
       << BaseRow, RowRetagged >>,
       << BaseRow, RowOtherSku >> >>

OrdinaryFiles == Enumerate(Contents)
FileSystem == OrdinaryFiles \o Examples

\* the report paths
Files == 1..Len(OrdinaryFiles)
ExampleFiles == (Len(OrdinaryFiles) + 1)..Len(FileSystem)

\* csv.DictReader over the opened file: its rows
Reader(report_path) == FileSystem[report_path]

\* the provider whose report a file is: the one of the account that pays
\* its first row
ProviderOf(report_path) ==
    IF Reader(report_path)[1].payer = "acct1" THEN "prov1" ELSE "prov2"

(***************************************************************************)
(* State.                                                                  *)
(***************************************************************************)
VARIABLES
    tables,      \* the dimension tables: bill, cost_entry, product, pricing,
                 \* reservation; each a set of row versions, a version being
                 \* committed or pending in one processor's session
    line_items,  \* the durable line item table, rows in insertion order
    nextid,      \* the id sequence of every dimension table
    proc,        \* per processor instance: its position in process() and
                 \* the instance attributes of AWSReportProcessor
    cleaner,     \* the call of purge_expired_report_data: its arguments, its
                 \* position, its session's deletes and the list it returns
    remote,      \* the bucket: per key the object's ETag and content
    local_files, \* the download directory: per file name its content
    stats,       \* the report file status records
    manifests,   \* the manifest records
    now,         \* the hour of the clock
    queue,       \* the process queue: the submitted process_report_file tasks
    sched,       \* the last call of get_report_files that returned: its
                 \* reports and the tasks it submitted
    task,        \* the process_report_file task the worker has taken
    dl,          \* the last download_report: how it ended, what it returned
                 \* and the keys it transferred
    rp,          \* the last construction of a ReportProcessor: its arguments,
                 \* how it ended and the accessors and queries it reached
    cur_dir,     \* a directory of downloaded report files with the status
                 \* records of its files, and the last remove_temp_cur_files
    recording,    \* per downloader invocation: its position in
                 \* _process_manifest_db_record and what it found and returned
    task2        \* the process_report_file task a second worker has taken

procVars == << tables, line_items, nextid, proc >>

dlVars == << remote, local_files, stats, manifests, dl >>
taskVars == << now, queue, sched, task, task2 >>

TableNames == {"bill", "cost_entry", "product", "pricing", "reservation"}

(***************************************************************************)
(* The report database session of one processor (ReportDBAccessorBase is   *)
(* not among the sources: the operations below are modelled from their     *)
(* use by the processor and from the data model of the specification).     *)
(***************************************************************************)
\* the row versions a session reads: the committed ones and its own
Visible(tbl, p) ==
    { r \in tbl : r.xid = p } \cup
    { r \in tbl : r.xid = Committed /\ ~ \E q \in tbl : q.xid = p /\ q.id = r.id }

\* the conflict keys of the tables
BillKey(r) == << r.bill_type, r.payer_account_id, r.billing_period_start >>
CostEntryKey(r) == << r.bill_id, r.interval_start >>
ProductKey(r) == << r.sku, r.product_name, r.region >>
PricingUnique(r) == << r.term, r.unit >>
ReservationKey(r) == r.reservation_arn

\* '{term}-{unit}'.format(...), an empty value formatted as 'None'
PricingKey(r) ==
    (IF r.term # "" THEN r.term ELSE "None") \o "-" \o
    (IF r.unit # "" THEN r.unit ELSE "None")

\* the key of a row by the name of the constraint or map it is looked up in
KeyFor(key_name, r) ==
    CASE key_name = "bill" -> BillKey(r)
      [] key_name = "cost_entry" -> CostEntryKey(r)
      [] key_name = "product" -> ProductKey(r)
      [] key_name = "pricing" -> PricingUnique(r)
      [] key_name = "pricing_map" -> PricingKey(r)
      [] key_name = "reservation" -> ReservationKey(r)

\* another session holds an uncommitted version with this conflict key: the
\* insert waits for that session to commit or roll back
Blocked(tbl, p, key, key_name) ==
    \E r \in tbl : r.xid \notin {Committed, p} /\ KeyFor(key_name, r) = key

\* INSERT ... ON CONFLICT DO NOTHING, then the id of the row with that key
insert_on_conflict_do_nothing(tbl, nid, p, data, key_name) ==
    LET hit == { r \in Visible(tbl, p) : KeyFor(key_name, r) = KeyFor(key_name, data) }
    IN  IF hit # {}
        THEN [ tbl |-> tbl, nid |-> nid, id |-> (CHOOSE r \in hit : TRUE).id ]
        ELSE [ tbl |-> tbl \cup { [id |-> nid + 1, xid |-> p] @@ data },
               nid |-> nid + 1, id |-> nid + 1 ]

\* INSERT ... ON CONFLICT (key) DO UPDATE SET every column
insert_on_conflict_do_update(tbl, nid, p, data, key_name) ==
    LET hit == { r \in Visible(tbl, p) : KeyFor(key_name, r) = KeyFor(key_name, data) }
        old == CHOOSE r \in hit : TRUE
    IN  IF hit # {}
        THEN [ tbl |-> (tbl \ { r \in tbl : r.xid = p /\ r.id = old.id })
                         \cup { [id |-> old.id, xid |-> p] @@ data },
               nid |-> nid, id |-> old.id ]
        ELSE [ tbl |-> tbl \cup { [id |-> nid + 1, xid |-> p] @@ data },
               nid |-> nid + 1, id |-> nid + 1 ]

\* session.commit(): the session's versions replace the committed ones
CommitTable(tbl, p) ==
    { r \in tbl : r.xid # p /\ ~ \E q \in tbl : q.xid = p /\ q.id = r.id }
    \cup { [r EXCEPT !.xid = Committed] : r \in { q \in tbl : q.xid = p } }

\* rollback when the session ends without commit
RollbackTable(tbl, p) == { r \in tbl : r.xid # p }

\* the committed rows of a table
Durable(tbl) == { r \in tbl : r.xid = Committed }

\* {key: id} over the committed rows, as the get_* accessors build it: a
\* dict comprehension over the query result, the last row of a key winning
IdMap(tbl, key_name) ==
    LET rows == Durable(tbl)
    IN  [ k \in { KeyFor(key_name, r) : r \in rows } |->
            LET ids == { r.id : r \in { q \in rows : KeyFor(key_name, q) = k } }
            IN  CHOOSE i \in ids : \A j \in ids : j <= i ]

(***************************************************************************)
(* Column maps and keys (ReportingCommonDBAccessor.column_map is data of   *)
(* the deployment; the columns below are the ones the rows carry).         *)
(***************************************************************************)
\* _get_data_for_table: the row's values keyed on the table's column names
get_data_for_table(row, table_name) ==
    CASE table_name = "bill" ->
           [ bill_type |-> row.bill_type,
             payer_account_id |-> row.payer,
             billing_period_start |-> row.period ]
      [] table_name = "product" ->
           [ sku |-> row.sku, product_name |-> row.pname,
             region |-> row.region, instance_type |-> row.itype ]
      [] table_name = "pricing" ->
           [ term |-> row.term, unit |-> row.unit,
             public_on_demand_rate |-> row.rate ]
      [] table_name = "reservation" ->
           [ reservation_arn |-> row.arn,
             number_of_reservations |-> row.rcount ]
      [] table_name = "line_item" ->
           [ invoice_id |-> row.invoice_id,
             line_item_type |-> row.li_type,
             usage_type |-> row.usage_type,
             resource_id |-> row.resource_id ]

\* set(data.values()) == {''}
AllEmpty(data) == { data[c] : c \in DOMAIN data } = { "" }

\* the mapped line item columns, in column_map order
line_item_columns == << "invoice_id", "line_item_type", "usage_type", "resource_id" >>

\* line_item_conflict_columns
line_item_conflict_columns == << "hash", "cost_entry_id" >>

\* the values of a line item row in the conflict columns
ConflictKey(item) == [ i \in 1..Len(line_item_conflict_columns) |->
                         item[line_item_conflict_columns[i]] ]

\* str.join
RECURSIVE Join(_, _)
Join(parts, sep) ==
    IF parts = << >> THEN ""
    ELSE IF Len(parts) = 1 THEN parts[1]
    ELSE parts[1] \o sep \o Join(Tail(parts), sep)

\* str.split(sep) of a tokenized string
RECURSIVE Split(_, _)
Split(tokens, sep) ==
    IF tokens = << >> THEN << "" >>
    ELSE LET rest == Split(Tail(tokens), sep)
         IN  IF Head(tokens) = sep THEN << "" >> \o rest
             ELSE << Head(tokens) \o Head(rest) >> \o Tail(rest)

\* _get_line_item_hash_columns without the filter
get_line_item_hash_columns_all == line_item_columns

\* _get_line_item_hash_columns: every mapped column but invoice_id
get_line_item_hash_columns ==
    SelectSeq(line_item_columns, LAMBDA column : column # "invoice_id")

\* _create_line_item_hash_string
create_line_item_hash_string(data) ==
    Join([ i \in 1..Len(get_line_item_hash_columns) |->
             data[get_line_item_hash_columns[i]] ], ":")

\* Hasher.hash_string_to_hex: sha256, taken to be collision free
hash_string_to_hex(data_str) == << "sha256", data_str >>

\* _process_tags: the tag columns with a value, as one JSON document
process_tags(row) == { t \in row.tags : t[2] # "" }

(***************************************************************************)
(* AWSReportProcessor: resolve-or-create of the dimensions of one row.     *)
(* Each operator takes the processor P (of instance p), the table and its  *)
(* id sequence, and gives the identifier, the table and sequence after     *)
(* the call, the in-run cache after it, and whether the insert it issues   *)
(* waits on another session.                                               *)
(***************************************************************************)
Resolved(id, tbl, nid, cache) ==
    [ id |-> id, tbl |-> tbl, nid |-> nid, cache |-> cache, blocked |-> FALSE,
      created |-> FALSE ]

Created(ins, cache_key, cache, blocked) ==
    [ id |-> ins.id, tbl |-> ins.tbl, nid |-> ins.nid,
      cache |-> Put(cache, cache_key, ins.id), blocked |-> blocked,
      created |-> TRUE ]

\* _create_cost_entry_bill with an INSERT that always adds a row
create_cost_entry_bill_plain_insert(P, p, tbl, nid, row) ==
    LET key == << row.bill_type, row.payer, row.period >>
        data == get_data_for_table(row, "bill") @@ [ provider_id |-> P.provider_id ]
    IN  IF key \in DOMAIN P.processed_report.bills
        THEN Resolved(P.processed_report.bills[key], tbl, nid, P.processed_report.bills)
        ELSE IF key \in DOMAIN P.existing_bill_map
        THEN Resolved(P.existing_bill_map[key], tbl, nid, P.processed_report.bills)
        ELSE Created([ tbl |-> tbl \cup { [id |-> nid + 1, xid |-> p] @@ data },
                       nid |-> nid + 1, id |-> nid + 1 ],
                     key, P.processed_report.bills,
                     Blocked(tbl, p, BillKey(data), "bill"))

\* _create_cost_entry_bill
create_cost_entry_bill(P, p, tbl, nid, row) ==
    LET key == << row.bill_type, row.payer, row.period >>
        data == get_data_for_table(row, "bill") @@ [ provider_id |-> P.provider_id ]
    IN  IF key \in DOMAIN P.processed_report.bills
        THEN Resolved(P.processed_report.bills[key], tbl, nid, P.processed_report.bills)
        ELSE IF key \in DOMAIN P.existing_bill_map
        THEN Resolved(P.existing_bill_map[key], tbl, nid, P.processed_report.bills)
        ELSE Created(insert_on_conflict_do_nothing(tbl, nid, p, data, "bill"),
                     key, P.processed_report.bills,
                     Blocked(tbl, p, BillKey(data), "bill"))

\* _get_cost_entry_time_interval: start, end = interval.split('/')
get_cost_entry_time_interval(interval) == Split(interval, "/")

\* _create_cost_entry without the lookup in existing_cost_entry_map
create_cost_entry_ignores_map(P, p, tbl, nid, row, bill_id) ==
    LET interval == get_cost_entry_time_interval(row.interval)
        key == << bill_id, interval[1] >>
        data == [ bill_id |-> bill_id, interval_start |-> interval[1],
                  interval_end |-> interval[2] ]
    IN  IF key \in DOMAIN P.processed_report.cost_entries
        THEN Resolved(P.processed_report.cost_entries[key], tbl, nid,
                      P.processed_report.cost_entries)
        ELSE Created(insert_on_conflict_do_nothing(tbl, nid, p, data, "cost_entry"),
                     key, P.processed_report.cost_entries,
                     Blocked(tbl, p, CostEntryKey(data), "cost_entry"))

\* _create_cost_entry
create_cost_entry(P, p, tbl, nid, row, bill_id) ==
    LET interval == get_cost_entry_time_interval(row.interval)
        key == << bill_id, interval[1] >>
        data == [ bill_id |-> bill_id, interval_start |-> interval[1],
                  interval_end |-> interval[2] ]
    IN  IF key \in DOMAIN P.processed_report.cost_entries
        THEN Resolved(P.processed_report.cost_entries[key], tbl, nid,
                      P.processed_report.cost_entries)
        ELSE IF key \in DOMAIN P.existing_cost_entry_map
        THEN Resolved(P.existing_cost_entry_map[key], tbl, nid,
                      P.processed_report.cost_entries)
        ELSE Created(insert_on_conflict_do_nothing(tbl, nid, p, data, "cost_entry"),
                     key, P.processed_report.cost_entries,
                     Blocked(tbl, p, CostEntryKey(data), "cost_entry"))

\* _create_cost_entry_product
create_cost_entry_product(P, p, tbl, nid, row) ==
    LET key == << row.sku, row.pname, row.region >>
        data == get_data_for_table(row, "product")
    IN  IF key \in DOMAIN P.processed_report.products
        THEN Resolved(P.processed_report.products[key], tbl, nid,
                      P.processed_report.products)
        ELSE IF key \in DOMAIN P.existing_product_map
        THEN Resolved(P.existing_product_map[key], tbl, nid,
                      P.processed_report.products)
        ELSE IF AllEmpty(data)
        THEN Resolved(NoId, tbl, nid, P.processed_report.products)
        ELSE Created(insert_on_conflict_do_nothing(tbl, nid, p, data, "product"),
                     key, P.processed_report.products,
                     Blocked(tbl, p, ProductKey(data), "product"))

\* _create_cost_entry_pricing
create_cost_entry_pricing(P, p, tbl, nid, row) ==
    LET data == get_data_for_table(row, "pricing")
        key == PricingKey(data)
    IN  IF key \in DOMAIN P.processed_report.pricing
        THEN Resolved(P.processed_report.pricing[key], tbl, nid,
                      P.processed_report.pricing)
        ELSE IF key \in DOMAIN P.existing_pricing_map
        THEN Resolved(P.existing_pricing_map[key], tbl, nid,
                      P.processed_report.pricing)
        ELSE IF AllEmpty(data)
        THEN Resolved(NoId, tbl, nid, P.processed_report.pricing)
        ELSE Created(insert_on_conflict_do_nothing(tbl, nid, p, data, "pricing"),
                     key, P.processed_report.pricing,
                     Blocked(tbl, p, PricingUnique(data), "pricing"))

\* str.lower() of a line item type
Lower(s) == CASE s \in {"RIFee", "RIFEE"} -> "rifee"
              [] s = "Usage" -> "usage"
              [] OTHER -> s

\* _create_cost_entry_reservation with the write of a finalizing row for
\* every row
create_cost_entry_reservation_always_upserts(P, p, tbl, nid, row) ==
    LET arn == row.arn
        data == get_data_for_table(row, "reservation")
        blocked == Blocked(tbl, p, ReservationKey(data), "reservation")
    IN  IF AllEmpty(data)
        THEN Resolved(NoId, tbl, nid, P.processed_report.reservations)
        ELSE Created(insert_on_conflict_do_update(tbl, nid, p, data, "reservation"),
                     arn, P.processed_report.reservations, blocked)

\* _create_cost_entry_reservation with a known ARN resolved for every line
\* item type
create_cost_entry_reservation_resolves_known(P, p, tbl, nid, row) ==
    LET arn == row.arn
        line_item_type == Lower(row.li_type)
        reservation_id ==
            IF arn \in DOMAIN P.processed_report.reservations
            THEN P.processed_report.reservations[arn]
            ELSE IF arn \in DOMAIN P.existing_reservation_map
            THEN P.existing_reservation_map[arn]
            ELSE NoId
        data == get_data_for_table(row, "reservation")
        blocked == Blocked(tbl, p, ReservationKey(data), "reservation")
    IN  IF reservation_id = NoId
        THEN IF AllEmpty(data)
             THEN Resolved(NoId, tbl, nid, P.processed_report.reservations)
             ELSE IF line_item_type = "rifee"
             THEN Created(insert_on_conflict_do_update(tbl, nid, p, data, "reservation"),
                          arn, P.processed_report.reservations, blocked)
             ELSE Created(insert_on_conflict_do_nothing(tbl, nid, p, data, "reservation"),
                          arn, P.processed_report.reservations, blocked)
        ELSE Resolved(reservation_id, tbl, nid, P.processed_report.reservations)

\* _create_cost_entry_reservation
create_cost_entry_reservation(P, p, tbl, nid, row) ==
    LET arn == row.arn
        line_item_type == Lower(row.li_type)
        reservation_id ==
            IF arn \in DOMAIN P.processed_report.reservations
            THEN P.processed_report.reservations[arn]
            ELSE IF arn \in DOMAIN P.existing_reservation_map
            THEN P.existing_reservation_map[arn]
            ELSE NoId
        data == get_data_for_table(row, "reservation")
        blocked == Blocked(tbl, p, ReservationKey(data), "reservation")
    IN  IF reservation_id = NoId \/ line_item_type = "rifee"
        THEN IF AllEmpty(data)
             THEN Resolved(NoId, tbl, nid, P.processed_report.reservations)
             ELSE IF line_item_type = "rifee"
             THEN Created(insert_on_conflict_do_update(tbl, nid, p, data, "reservation"),
                          arn, P.processed_report.reservations, blocked)
             ELSE Created(insert_on_conflict_do_nothing(tbl, nid, p, data, "reservation"),
                          arn, P.processed_report.reservations, blocked)
        ELSE Resolved(reservation_id, tbl, nid, P.processed_report.reservations)

\* _create_cost_entry_line_item: the record appended to the batch
create_cost_entry_line_item(row, cost_entry_id, bill_id, product_id, pricing_id, reservation_id) ==
    LET data == get_data_for_table(row, "line_item")
    IN  data @@
        [ tags |-> process_tags(row),
          cost_entry_id |-> cost_entry_id,
          cost_entry_bill_id |-> bill_id,
          cost_entry_product_id |-> product_id,
          cost_entry_pricing_id |-> pricing_id,
          cost_entry_reservation_id |-> reservation_id,
          hash |-> hash_string_to_hex(create_line_item_hash_string(data)) ]

(***************************************************************************)
(* AWSReportProcessor: construction and the steps of process().  A step    *)
(* is an operator on a world W = [tables, line_items, nextid, P]: the      *)
(* database and the processor P of instance p; the actions apply the       *)
(* steps to the state, and process() composes them to a whole run.         *)
(***************************************************************************)
\* ProcessedReport.__init__ and remove_processed_rows
EmptyReport ==
    [ bills |-> EmptyMap, cost_entries |-> EmptyMap, line_items |-> << >>,
      products |-> EmptyMap, reservations |-> EmptyMap, pricing |-> EmptyMap ]

\* a processor instance that has not been constructed yet
IdleProc ==
    [ pc |-> "idle", report_path |-> 0, provider_id |-> "", batch_size |-> 0,
      pos |-> 0, bill_id |-> NoId, final |-> FALSE, ended_at |-> "",
      processed_report |-> EmptyReport,
      existing_bill_map |-> EmptyMap, existing_cost_entry_map |-> EmptyMap,
      existing_product_map |-> EmptyMap, existing_pricing_map |-> EmptyMap,
      existing_reservation_map |-> EmptyMap,
      temp_table |-> << >> ]

\* the positions at which a run holds a session
ActivePcs == {"row", "commit", "bulk", "merge", "clear", "update"}

\* AWSReportProcessor.__init__: the instance with its maps seeded from the
\* durable tables and an empty temp table
NewProcessor(tbls, report_path, provider_id, batch_size) ==
    [ IdleProc EXCEPT
        !.pc = "row", !.report_path = report_path, !.provider_id = provider_id,
        !.batch_size = batch_size,
        !.existing_bill_map = IdMap(tbls.bill, "bill"),
        !.existing_cost_entry_map = IdMap(tbls.cost_entry, "cost_entry"),
        !.existing_product_map = IdMap(tbls.product, "product"),
        !.existing_pricing_map = IdMap(tbls.pricing, "pricing_map"),
        !.existing_reservation_map = IdMap(tbls.reservation, "reservation") ]

\* the session ends without commit and the temp table goes with it; of the
\* processor object only what the run was given remains of interest
EndSession(W, p, pc) ==
    [ W EXCEPT !.tables = [ t \in TableNames |-> RollbackTable(W.tables[t], p) ],
               !.P = [ IdleProc EXCEPT !.pc = pc,
                                       !.report_path = W.P.report_path,
                                       !.provider_id = W.P.provider_id,
                                       !.batch_size = W.P.batch_size,
                                       !.pos = W.P.pos,
                                       !.ended_at = W.P.pc ] ]

\* the row's TimeInterval does not split into a start and an end
Malformed(row) == Len(get_cost_entry_time_interval(row.interval)) # 2

\* the dimensions of the next row, resolved or created
RowDimensions(W, p) ==
    LET P == W.P
        row == Reader(P.report_path)[P.pos + 1]
        b == IF P.bill_id = NoId
             THEN create_cost_entry_bill(P, p, W.tables.bill, W.nextid.bill, row)
             ELSE Resolved(P.bill_id, W.tables.bill, W.nextid.bill,
                           P.processed_report.bills)
    IN  [ bill |-> b,
          cost_entry |-> IF Malformed(row)
                         THEN Resolved(NoId, W.tables.cost_entry,
                                       W.nextid.cost_entry,
                                       P.processed_report.cost_entries)
                         ELSE create_cost_entry(P, p, W.tables.cost_entry,
                                                W.nextid.cost_entry, row, b.id),
          product |-> create_cost_entry_product(P, p, W.tables.product,
                                                W.nextid.product, row),
          pricing |-> create_cost_entry_pricing(P, p, W.tables.pricing,
                                                W.nextid.pricing, row),
          reservation |-> create_cost_entry_reservation(P, p, W.tables.reservation,
                                                W.nextid.reservation, row) ]

\* an insert of the next row waits on another session
RowBlocked(W, p) ==
    LET row == Reader(W.P.report_path)[W.P.pos + 1]
        d == RowDimensions(W, p)
    IN  IF Malformed(row) THEN d.bill.blocked
        ELSE \E t \in TableNames : d[t].blocked

\* the iteration with the flush once the batch is larger than the batch size
process_row_flushes_late(W, p) ==
    LET P == W.P
        row == Reader(P.report_path)[P.pos + 1]
        d == RowDimensions(W, p)
        item == create_cost_entry_line_item(row, d.cost_entry.id, d.bill.id,
                    d.product.id, d.pricing.id, d.reservation.id)
        items == Append(P.processed_report.line_items, item)
    IN  IF Malformed(row)
        THEN EndSession([W EXCEPT !.nextid.bill = d.bill.nid], p, "failed")
        ELSE [ W EXCEPT
                 !.tables = [ t \in TableNames |-> d[t].tbl ],
                 !.nextid = [ t \in TableNames |-> d[t].nid ],
                 !.P.pos = @ + 1,
                 !.P.bill_id = d.bill.id,
                 !.P.processed_report =
                     [ bills |-> d.bill.cache, cost_entries |-> d.cost_entry.cache,
                       line_items |-> items, products |-> d.product.cache,
                       reservations |-> d.reservation.cache,
                       pricing |-> d.pricing.cache ],
                 !.P.pc = IF Len(items) > P.batch_size THEN "commit" ELSE "row" ]

\* the iteration with a row that does not split skipped instead of raised
process_row_skips_malformed(W, p) ==
    LET P == W.P
        row == Reader(P.report_path)[P.pos + 1]
        d == RowDimensions(W, p)
        item == create_cost_entry_line_item(row, d.cost_entry.id, d.bill.id,
                    d.product.id, d.pricing.id, d.reservation.id)
        items == Append(P.processed_report.line_items, item)
    IN  IF Malformed(row)
        THEN [ W EXCEPT !.P.pos = @ + 1 ]
        ELSE [ W EXCEPT
                 !.tables = [ t \in TableNames |-> d[t].tbl ],
                 !.nextid = [ t \in TableNames |-> d[t].nid ],
                 !.P.pos = @ + 1,
                 !.P.bill_id = d.bill.id,
                 !.P.processed_report =
                     [ bills |-> d.bill.cache, cost_entries |-> d.cost_entry.cache,
                       line_items |-> items, products |-> d.product.cache,
                       reservations |-> d.reservation.cache,
                       pricing |-> d.pricing.cache ],
                 !.P.pc = IF Len(items) >= P.batch_size THEN "commit" ELSE "row" ]

\* one iteration of "for row in reader" of process()
process_row(W, p) ==
    LET P == W.P
        row == Reader(P.report_path)[P.pos + 1]
        d == RowDimensions(W, p)
        item == create_cost_entry_line_item(row, d.cost_entry.id, d.bill.id,
                    d.product.id, d.pricing.id, d.reservation.id)
        items == Append(P.processed_report.line_items, item)
    IN  IF Malformed(row)
        THEN \* the split raises: process() ends with the exception
             EndSession([W EXCEPT !.nextid.bill = d.bill.nid], p, "failed")
        ELSE [ W EXCEPT
                 !.tables = [ t \in TableNames |-> d[t].tbl ],
                 !.nextid = [ t \in TableNames |-> d[t].nid ],
                 !.P.pos = @ + 1,
                 !.P.bill_id = d.bill.id,
                 !.P.processed_report =
                     [ bills |-> d.bill.cache, cost_entries |-> d.cost_entry.cache,
                       line_items |-> items, products |-> d.product.cache,
                       reservations |-> d.reservation.cache,
                       pricing |-> d.pricing.cache ],
                 !.P.pc = IF Len(items) >= P.batch_size THEN "commit" ELSE "row" ]

\* process() without the flush of the rows left over after the loop
end_of_file_no_flush(W, p) == EndSession(W, p, "done")

\* the reader is exhausted: flush what is left, or close the session
end_of_file(W, p) ==
    IF W.P.processed_report.line_items # << >>
    THEN [ W EXCEPT !.P.pc = "commit", !.P.final = TRUE ]
    ELSE EndSession(W, p, "done")

\* _save_to_db, first half: report_db.commit() of the dimension rows
save_commit(W, p) ==
    [ W EXCEPT !.tables = [ t \in TableNames |-> CommitTable(W.tables[t], p) ],
               !.P.pc = "bulk" ]

\* the bulk load without the first line item of the batch
bulk_insert_rows_skips_first(W, p) ==
    [ W EXCEPT !.P.temp_table = @ \o Tail(W.P.processed_report.line_items),
               !.P.pc = "merge" ]

\* _save_to_db, second half: bulk_insert_rows of the batch into the temp table
bulk_insert_rows(W, p) ==
    [ W EXCEPT !.P.temp_table = @ \o W.P.processed_report.line_items,
               !.P.pc = "merge" ]

\* the merge with ON CONFLICT DO NOTHING: a staged row whose key is present
\* leaves the durable row as it was
merge_temp_table_keeps_existing(durable, staged) ==
    LET absent(row) == \A i \in 1..Len(durable) :
                           ConflictKey(durable[i]) # ConflictKey(row)
    IN  durable \o SelectSeq(staged, absent)

\* the merge as a plain INSERT INTO table SELECT columns FROM temp
merge_insert_only(durable, staged) == durable \o staged

\* the merge of the staged rows into the durable table, row by row: insert;
\* on conflicting (hash, cost_entry_id) update all columns from the
\* incoming row
RECURSIVE merge_temp_table(_, _)
merge_temp_table(durable, staged) ==
    IF staged = << >> THEN durable
    ELSE LET incoming == Head(staged)
             at == { i \in 1..Len(durable) :
                       ConflictKey(durable[i]) = ConflictKey(incoming) }
         IN  merge_temp_table(
                 IF at = {} THEN Append(durable, incoming)
                 ELSE [ i \in 1..Len(durable) |->
                          IF i \in at THEN incoming ELSE durable[i] ],
                 Tail(staged))

\* the merge step with an INSERT that carries no ON CONFLICT clause
merge_upsert_plain_insert(W, p) ==
    [ W EXCEPT !.line_items = @ \o W.P.temp_table, !.P.pc = "clear" ]

\* the merge as one statement that fails when the staged rows propose a
\* conflict key twice
merge_upsert_rejects_duplicates(W, p) ==
    IF \E i, j \in 1..Len(W.P.temp_table) :
           i < j /\ ConflictKey(W.P.temp_table[i]) = ConflictKey(W.P.temp_table[j])
    THEN EndSession(W, p, "failed")
    ELSE [ W EXCEPT !.line_items = merge_temp_table(W.line_items, W.P.temp_table),
                    !.P.pc = "clear" ]

\* merge_temp_table, the upsert and its commit
merge_upsert(W, p) ==
    [ W EXCEPT !.line_items = merge_temp_table(W.line_items, W.P.temp_table),
               !.P.pc = "clear" ]

\* merge_temp_table, DELETE FROM temp, its commit and the vacuum; after the
\* last batch process() closes the session and returns
merge_clear(W, p) ==
    IF W.P.final
    THEN EndSession(W, p, "done")
    ELSE [ W EXCEPT !.P.temp_table = << >>, !.P.pc = "update" ]

\* _update_mappings
update_mappings(W, p) ==
    LET P == W.P
    IN  [ W EXCEPT
            !.P.existing_cost_entry_map = P.processed_report.cost_entries @@ @,
            !.P.existing_product_map = P.processed_report.products @@ @,
            !.P.existing_pricing_map = P.processed_report.pricing @@ @,
            !.P.existing_reservation_map = P.processed_report.reservations @@ @,
            !.P.processed_report = EmptyReport,
            !.P.pc = "row" ]

\* the step process() takes next
Step(W, p) ==
    CASE W.P.pc = "row" /\ W.P.pos < Len(Reader(W.P.report_path)) -> process_row(W, p)
      [] W.P.pc = "row" /\ W.P.pos = Len(Reader(W.P.report_path)) -> end_of_file(W, p)
      [] W.P.pc = "commit" -> save_commit(W, p)
      [] W.P.pc = "bulk" -> bulk_insert_rows(W, p)
      [] W.P.pc = "merge" -> merge_upsert(W, p)
      [] W.P.pc = "clear" -> merge_clear(W, p)
      [] W.P.pc = "update" -> update_mappings(W, p)

\* AWSReportProcessor.process(), run without interruption to its end
RECURSIVE process(_, _)
process(W, p) ==
    IF W.P.pc \in ActivePcs THEN process(Step(W, p), p) ELSE W

(***************************************************************************)
(* Actions of the processing runs.                                         *)
(***************************************************************************)
World(p) ==
    [ tables |-> tables, line_items |-> line_items, nextid |-> nextid,
      P |-> proc[p] ]

Apply(p, W) ==
    /\ tables' = W.tables
    /\ line_items' = W.line_items
    /\ nextid' = W.nextid
    /\ proc' = [proc EXCEPT ![p] = W.P]
    /\ UNCHANGED << cleaner, dlVars, taskVars, rp, cur_dir, recording >>

Active(p) == proc[p].pc \in ActivePcs

\* a worker constructs a processor for a report file
Construct(p, report_path, batch_size) ==
    /\ proc[p].pc = "idle"
    /\ proc' = [proc EXCEPT ![p] =
                  NewProcessor(tables, report_path, ProviderOf(report_path),
                               batch_size)]
    /\ UNCHANGED << tables, line_items, nextid, cleaner, dlVars, taskVars, rp, cur_dir, recording >>

ProcessRow(p) ==
    /\ proc[p].pc = "row"
    /\ proc[p].pos < Len(Reader(proc[p].report_path))
    /\ ~ RowBlocked(World(p), p)
    /\ Apply(p, process_row(World(p), p))

EndOfFile(p) ==
    /\ proc[p].pc = "row"
    /\ proc[p].pos = Len(Reader(proc[p].report_path))
    /\ Apply(p, end_of_file(World(p), p))

SaveCommit(p) ==
    /\ proc[p].pc = "commit"
    /\ Apply(p, save_commit(World(p), p))

BulkInsertRows(p) ==
    /\ proc[p].pc = "bulk"
    /\ Apply(p, bulk_insert_rows(World(p), p))

MergeUpsert(p) ==
    /\ proc[p].pc = "merge"
    /\ Apply(p, merge_upsert(World(p), p))

MergeClear(p) ==
    /\ proc[p].pc = "clear"
    /\ Apply(p, merge_clear(World(p), p))

UpdateMappings(p) ==
    /\ proc[p].pc = "update"
    /\ Apply(p, update_mappings(World(p), p))

\* the worker dies in the middle of a run
Abort(p) ==
    /\ Active(p)
    /\ Apply(p, EndSession(World(p), p, "aborted"))

\* the steps of process() in a constructed processor
ProcessStep(p) ==
    \/ ProcessRow(p)
    \/ EndOfFile(p)
    \/ SaveCommit(p)
    \/ BulkInsertRows(p)
    \/ MergeUpsert(p)
    \/ MergeClear(p)
    \/ UpdateMappings(p)

\* the order in which the instances are started
ProcOrder == << "A", "B" >>
StartsInOrder(p) ==
    \A i, j \in 1..Len(ProcOrder) :
        (i < j /\ ProcOrder[j] = p) => proc[ProcOrder[i]].pc # "idle"

\* ---------------------------------------------------------------------
\* AWSReportDBCleaner: purge_expired_report_data, in its own session

None == "None"
Providers == {"prov1", "prov2"}
MaxDate == 3

\* the expired_date argument: a date, or no date for Python's None
NoDate == << >>
CutoffDates == { << date >> : date \in 1..MaxDate }

\* the rows of a query in the order of their identifiers
RECURSIVE OrderById(_)
OrderById(rows) ==
    IF rows = {} THEN << >>
    ELSE LET first == CHOOSE r \in rows : \A q \in rows : r.id <= q.id
         IN  << first >> \o OrderById(rows \ {first})

\* ReportDBAccessor.get_bill_query_before_date
get_bill_query_before_date(bill_tbl, date) ==
    { b \in Durable(bill_tbl) : b.billing_period_start < date[1] }

\* ReportDBAccessor.get_cost_entry_bills_query_by_provider
get_cost_entry_bills_query_by_provider(bill_tbl, provider_id) ==
    { b \in Durable(bill_tbl) : b.provider_id = provider_id }

\* ReportDBAccessor.get_lineitem_query_for_billid
get_lineitem_query_for_billid(items, bill_id) ==
    { ConflictKey(items[i]) :
        i \in { j \in 1..Len(items) : items[j].cost_entry_bill_id = bill_id } }

\* ReportDBAccessor.get_cost_entry_query_for_billid
get_cost_entry_query_for_billid(cost_entry_tbl, bill_id) ==
    { c.id : c \in { e \in Durable(cost_entry_tbl) : e.bill_id = bill_id } }

\* the bills of the call's selector
bill_objects_query(bill_tbl, expired_date, provider_id) ==
    IF expired_date # NoDate
    THEN get_bill_query_before_date(bill_tbl, expired_date)
    ELSE get_cost_entry_bills_query_by_provider(bill_tbl, provider_id)

\* a cleaner at rest; deleted holds the rows its session has deleted and
\* not yet committed
IdleCleaner ==
    [ pc |-> "idle", expired_date |-> NoDate, provider_id |-> None,
      simulate |-> FALSE, bill_objects |-> << >>, pos |-> 0,
      removed_items |-> << >>,
      deleted |-> [ line_items |-> {}, cost_entries |-> {} ] ]

\* the call with a check of the arguments that lets both of them pass
purge_call_allows_both(C, expired_date, provider_id, simulate) ==
    LET K == [ IdleCleaner EXCEPT !.expired_date = expired_date,
                   !.provider_id = provider_id, !.simulate = simulate ]
    IN  IF expired_date = NoDate /\ provider_id = None
        THEN [ C EXCEPT !.K = [ K EXCEPT !.pc = "raised" ] ]
        ELSE [ C EXCEPT !.K =
                 [ K EXCEPT !.pc = "loop",
                     !.bill_objects = OrderById(bill_objects_query(
                         C.tables.bill, expired_date, provider_id)) ] ]

\* the call with a query for all bills whatever the selector says
purge_call_selects_all(C, expired_date, provider_id, simulate) ==
    LET K == [ IdleCleaner EXCEPT !.expired_date = expired_date,
                   !.provider_id = provider_id, !.simulate = simulate ]
    IN  IF \/ (expired_date = NoDate /\ provider_id = None)
           \/ (expired_date # NoDate /\ provider_id # None)
        THEN [ C EXCEPT !.K = [ K EXCEPT !.pc = "raised" ] ]
        ELSE [ C EXCEPT !.K =
                 [ K EXCEPT !.pc = "loop",
                     !.bill_objects = OrderById(Durable(C.tables.bill)) ] ]

\* the call: the check of the arguments, then bill_objects.all()
purge_call(C, expired_date, provider_id, simulate) ==
    LET K == [ IdleCleaner EXCEPT !.expired_date = expired_date,
                   !.provider_id = provider_id, !.simulate = simulate ]
    IN  IF \/ (expired_date = NoDate /\ provider_id = None)
           \/ (expired_date # NoDate /\ provider_id # None)
        THEN [ C EXCEPT !.K = [ K EXCEPT !.pc = "raised" ] ]
        ELSE [ C EXCEPT !.K =
                 [ K EXCEPT !.pc = "loop",
                     !.bill_objects = OrderById(bill_objects_query(
                         C.tables.bill, expired_date, provider_id)) ] ]

\* the bill of the iteration under way
purge_bill_of(C) == C.K.bill_objects[C.K.pos + 1]

\* an iteration that leaves the line items of the bill in place
purge_bill_keeps_line_items(C) == C

\* get_lineitem_query_for_billid(bill_id).delete(), unless simulated
purge_bill_line_items(C) ==
    IF C.K.simulate = FALSE
    THEN [ C EXCEPT !.K.deleted.line_items = @ \cup
               get_lineitem_query_for_billid(C.line_items, purge_bill_of(C).id) ]
    ELSE C

\* get_cost_entry_query_for_billid(bill_id).delete(), unless simulated
purge_bill_cost_entries(C) ==
    IF C.K.simulate = FALSE
    THEN [ C EXCEPT !.K.deleted.cost_entries = @ \cup
               get_cost_entry_query_for_billid(C.tables.cost_entry,
                                               purge_bill_of(C).id) ]
    ELSE C

\* the entry of removed_items for a bill
removed_item(bill) ==
    [ account_payer_id |-> bill.payer_account_id,
      billing_period_start |-> ToString(bill.billing_period_start) ]

\* an iteration that lists a bill only when it deletes the bill's rows
purge_bill_lists_deleted_only(C) ==
    LET deleted == purge_bill_cost_entries(purge_bill_line_items(C))
    IN  [ deleted EXCEPT
            !.K.removed_items =
                IF C.K.simulate = FALSE
                THEN Append(@, removed_item(purge_bill_of(C))) ELSE @,
            !.K.pos = @ + 1 ]

\* an iteration whose deletes are committed as they are issued
purge_bill_commits_each(C) ==
    LET deleted == purge_bill_cost_entries(purge_bill_line_items(C))
    IN  [ deleted EXCEPT
            !.tables.cost_entry =
                { c \in @ : c.id \notin deleted.K.deleted.cost_entries },
            !.line_items = SelectSeq(@,
                LAMBDA item : ConflictKey(item) \notin deleted.K.deleted.line_items),
            !.K.removed_items = Append(@, removed_item(purge_bill_of(C))),
            !.K.pos = @ + 1 ]

\* one iteration of "for bill in bill_objects.all()": the line items of the
\* bill are deleted, then its cost entries, then the bill is listed
purge_bill(C) ==
    LET deleted == purge_bill_cost_entries(purge_bill_line_items(C))
    IN  [ deleted EXCEPT
            !.K.removed_items = Append(@, removed_item(purge_bill_of(C))),
            !.K.pos = @ + 1 ]

\* the rest of the call with bill_objects.delete() and the commit in
\* either mode
purge_return_always_deletes(C) ==
    LET K == C.K
        gone == { b.id : b \in bill_objects_query(C.tables.bill,
                                  K.expired_date, K.provider_id) }
    IN  [ C EXCEPT
            !.tables.bill = { b \in @ : b.id \notin gone },
            !.tables.cost_entry = { c \in @ : c.id \notin K.deleted.cost_entries },
            !.line_items = SelectSeq(@,
                LAMBDA item : ConflictKey(item) \notin K.deleted.line_items),
            !.K = [ K EXCEPT !.pc = "returned", !.deleted = IdleCleaner.deleted ] ]

\* the rest of the call with a cascade to the products, pricing and
\* reservations that no line item is left for
purge_return_drops_orphans(C) ==
    LET K == C.K
        gone == { b.id : b \in bill_objects_query(C.tables.bill,
                                  K.expired_date, K.provider_id) }
        ended == [ K EXCEPT !.pc = "returned", !.deleted = IdleCleaner.deleted ]
        kept == SelectSeq(C.line_items,
                    LAMBDA item : ConflictKey(item) \notin K.deleted.line_items)
        used(column) == { kept[i][column] : i \in 1..Len(kept) }
    IN  IF K.simulate = FALSE
        THEN [ C EXCEPT
                 !.tables.bill = { b \in @ : b.id \notin gone },
                 !.tables.cost_entry =
                     { c \in @ : c.id \notin K.deleted.cost_entries },
                 !.tables.product =
                     { r \in @ : r.id \in used("cost_entry_product_id") },
                 !.tables.pricing =
                     { r \in @ : r.id \in used("cost_entry_pricing_id") },
                 !.tables.reservation =
                     { r \in @ : r.id \in used("cost_entry_reservation_id") },
                 !.line_items = kept,
                 !.K = ended ]
        ELSE [ C EXCEPT !.K = ended ]

\* the rest of the call after the loop: bill_objects.delete() and the
\* commit, unless simulated; then the sessions close and the list returns
purge_return(C) ==
    LET K == C.K
        gone == { b.id : b \in bill_objects_query(C.tables.bill,
                                  K.expired_date, K.provider_id) }
        ended == [ K EXCEPT !.pc = "returned", !.deleted = IdleCleaner.deleted ]
    IN  IF K.simulate = FALSE
        THEN [ C EXCEPT
                 !.tables.bill = { b \in @ : b.id \notin gone },
                 !.tables.cost_entry =
                     { c \in @ : c.id \notin K.deleted.cost_entries },
                 !.line_items = SelectSeq(@,
                     LAMBDA item : ConflictKey(item) \notin K.deleted.line_items),
                 !.K = ended ]
        ELSE [ C EXCEPT !.K = ended ]

\* the call, from its first statement to its return or its exception
RECURSIVE purge_run(_)
purge_run(C) ==
    IF C.K.pc # "loop" THEN C
    ELSE IF C.K.pos < Len(C.K.bill_objects) THEN purge_run(purge_bill(C))
    ELSE purge_run(purge_return(C))

purge_expired_report_data(db, expired_date, provider_id, simulate) ==
    purge_run(purge_call([ tables |-> db.tables, line_items |-> db.line_items,
                           K |-> IdleCleaner ],
                         expired_date, provider_id, simulate))

CleanerWorld == [ tables |-> tables, line_items |-> line_items, K |-> cleaner ]

ApplyCleaner(C) ==
    /\ tables' = C.tables
    /\ line_items' = C.line_items
    /\ cleaner' = C.K
    /\ UNCHANGED << nextid, proc, dlVars, taskVars, rp, cur_dir, recording >>

PurgeCall(expired_date, provider_id, simulate) ==
    /\ cleaner.pc # "loop"
    /\ ApplyCleaner(purge_call(CleanerWorld, expired_date, provider_id, simulate))

PurgeBill ==
    /\ cleaner.pc = "loop"
    /\ cleaner.pos < Len(cleaner.bill_objects)
    /\ ApplyCleaner(purge_bill(CleanerWorld))

PurgeReturn ==
    /\ cleaner.pc = "loop"
    /\ cleaner.pos = Len(cleaner.bill_objects)
    /\ ApplyCleaner(purge_return(CleanerWorld))

\* the worker dies before the commit: the session's deletes roll back
PurgeAbort ==
    /\ cleaner.pc = "loop"
    /\ cleaner' = [ cleaner EXCEPT !.pc = "aborted",
                      !.deleted = IdleCleaner.deleted ]
    /\ UNCHANGED << tables, line_items, nextid, proc, dlVars, taskVars, rp, cur_dir, recording >>

\* ---------------------------------------------------------------------
\* AWSReportDownloader: the bucket, the local directory, the file status
\* records and the manifest records of one provider and billing period

ManifestKey == "Manifest.json"
ReportKeys == {"k1", "k2"}
AllKeys == ReportKeys \cup {ManifestKey}
Etags == {"e1", "e2"}
Assemblies == {"a1"}
NoObject == [ ETag |-> "NoSuchKey" ]
NoFile == [ file |-> "none" ]
NoFault == "NoFault"

\* the manifest documents the provider can publish: no file, one file, two
\* files, and a file listed twice
MaxListed == 2
KeyLists == { << >>, << "k1" >>, << "k1", "k2" >>, << "k2", "k2" >> }
ManifestBodies ==
    { [ assemblyId |-> a, reportKeys |-> ks ] : a \in Assemblies, ks \in KeyLists }

\* an object of the bucket: its ETag and its content
ReportObject(etag) == [ ETag |-> etag, Body |-> [ csv |-> etag ] ]
ManifestObject(body) ==
    [ ETag |-> "m-" \o body.assemblyId \o "-" \o Join(body.reportKeys, ","),
      Body |-> body ]

empty_manifest == [ reportKeys |-> << >> ]

\* utils.get_local_file_name
get_local_file_name(key) == "local-" \o key

\* the download directory of the customer's bucket, and the path of a file
\* in it as the sequence of the two
directory_path == "DATA_DIR/customer/aws/bucket"
full_file_path(key) == << directory_path, get_local_file_name(key) >>

\* os.path.basename
basename(path) == path[Len(path)]

\* ReportStatsDBAccessor(report_name, manifest_id): the record of the file,
\* added when the file has none
ReportStatsDBAccessor(records, report_name, manifest_id) ==
    IF \E r \in records : r.report_name = report_name /\ r.manifest_id = manifest_id
    THEN records
    ELSE records \cup { [ report_name |-> report_name,
                          manifest_id |-> manifest_id, etag |-> None,
                          last_started_datetime |-> NoDate,
                          last_completed_datetime |-> NoDate ] }

\* ReportStatsDBAccessor.get_etag
get_etag(records, report_name, manifest_id) ==
    IF \E r \in records : r.report_name = report_name /\ r.manifest_id = manifest_id
    THEN (CHOOSE r \in records :
              r.report_name = report_name /\ r.manifest_id = manifest_id).etag
    ELSE None

\* ReportStatsDBAccessor.update(etag=etag) and its commit
update_etag(records, report_name, manifest_id, etag) ==
    { IF r.report_name = report_name /\ r.manifest_id = manifest_id
      THEN [ r EXCEPT !.etag = etag ] ELSE r : r \in records }

\* download_file with a transfer whatever the stored tag is
download_file_always_transfers(D, key, stored_etag, fault) ==
    IF fault = key
    THEN [ D |-> D, file |-> full_file_path(key), etag |-> None,
           raised |-> "AWSReportDownloaderError" ]
    ELSE IF D.remote[key] = NoObject
    THEN [ D |-> D, file |-> full_file_path(key), etag |-> None,
           raised |-> "AWSReportDownloaderNoFileError" ]
    ELSE [ D |-> [ D EXCEPT
                     !.local_files[get_local_file_name(key)] = D.remote[key].Body,
                     !.transfers = Append(@, key) ],
           file |-> full_file_path(key), etag |-> D.remote[key].ETag,
           raised |-> "" ]

\* download_file with a transfer only when the stored tag differs
download_file_ignores_local_copy(D, key, stored_etag, fault) ==
    IF fault = key
    THEN [ D |-> D, file |-> full_file_path(key), etag |-> None,
           raised |-> "AWSReportDownloaderError" ]
    ELSE IF D.remote[key] = NoObject
    THEN [ D |-> D, file |-> full_file_path(key), etag |-> None,
           raised |-> "AWSReportDownloaderNoFileError" ]
    ELSE IF D.remote[key].ETag # stored_etag
    THEN [ D |-> [ D EXCEPT
                     !.local_files[get_local_file_name(key)] = D.remote[key].Body,
                     !.transfers = Append(@, key) ],
           file |-> full_file_path(key), etag |-> D.remote[key].ETag,
           raised |-> "" ]
    ELSE [ D |-> D, file |-> full_file_path(key),
           etag |-> D.remote[key].ETag, raised |-> "" ]

\* download_file with one exception type for every remote error
download_file_one_error_type(D, key, stored_etag, fault) ==
    LET local_s3_filename == get_local_file_name(key)
        unchanged == [ D |-> D, file |-> full_file_path(key), etag |-> None ]
    IN  IF fault = key \/ D.remote[key] = NoObject
        THEN unchanged @@ [ raised |-> "AWSReportDownloaderError" ]
        ELSE LET s3_etag == D.remote[key].ETag
             IN  IF s3_etag # stored_etag \/ D.local_files[local_s3_filename] = NoFile
                 THEN [ D |-> [ D EXCEPT
                                  !.local_files[local_s3_filename] = D.remote[key].Body,
                                  !.transfers = Append(@, key) ],
                        file |-> full_file_path(key), etag |-> s3_etag, raised |-> "" ]
                 ELSE [ D |-> D, file |-> full_file_path(key), etag |-> s3_etag,
                        raised |-> "" ]

\* download_file: get_object, then the transfer unless the stored tag is
\* the object's and the file is there; fault is the key for which the
\* bucket answers with an error other than NoSuchKey
download_file(D, key, stored_etag, fault) ==
    LET local_s3_filename == get_local_file_name(key)
        unchanged == [ D |-> D, file |-> full_file_path(key), etag |-> None ]
    IN  IF fault = key
        THEN unchanged @@ [ raised |-> "AWSReportDownloaderError" ]
        ELSE IF D.remote[key] = NoObject
        THEN unchanged @@ [ raised |-> "AWSReportDownloaderNoFileError" ]
        ELSE LET s3_etag == D.remote[key].ETag
             IN  IF s3_etag # stored_etag \/ D.local_files[local_s3_filename] = NoFile
                 THEN [ D |-> [ D EXCEPT
                                  !.local_files[local_s3_filename] = D.remote[key].Body,
                                  !.transfers = Append(@, key) ],
                        file |-> full_file_path(key), etag |-> s3_etag, raised |-> "" ]
                 ELSE [ D |-> D, file |-> full_file_path(key), etag |-> s3_etag,
                        raised |-> "" ]

\* _get_manifest without the except clause for a missing manifest
get_manifest_no_file_raises(D, fault) ==
    LET r == download_file(D, ManifestKey, None, fault)
    IN  IF r.raised # ""
        THEN [ D |-> D, manifest |-> empty_manifest, raised |-> r.raised ]
        ELSE [ D |-> r.D, manifest |-> r.D.local_files[basename(r.file)], raised |-> "" ]

\* _get_manifest
get_manifest(D, fault) ==
    LET r == download_file(D, ManifestKey, None, fault)
    IN  IF r.raised = "AWSReportDownloaderNoFileError"
        THEN [ D |-> D, manifest |-> empty_manifest, raised |-> "" ]
        ELSE IF r.raised # ""
        THEN [ D |-> D, manifest |-> empty_manifest, raised |-> r.raised ]
        ELSE [ D |-> r.D, manifest |-> r.D.local_files[basename(r.file)], raised |-> "" ]

\* _process_manifest_db_record with an add whatever get_manifest found
process_manifest_db_record_always_adds(D, manifest) ==
    [ D |-> [ D EXCEPT !.manifests = @ \cup
                { [ id |-> Cardinality(D.manifests) + 1,
                    assembly_id |-> manifest.assemblyId,
                    provider_id |-> D.provider_id,
                    num_total_files |-> Len(manifest.reportKeys) ] } ],
      manifest_id |-> Cardinality(D.manifests) + 1 ]

\* _process_manifest_db_record: the record of (assembly, provider), added
\* when there is none
process_manifest_db_record(D, manifest) ==
    LET found == { m \in D.manifests : m.assembly_id = manifest.assemblyId
                                       /\ m.provider_id = D.provider_id }
        new_id == Cardinality(D.manifests) + 1
    IN  IF found # {}
        THEN [ D |-> D, manifest_id |-> (CHOOSE m \in found : TRUE).id ]
        ELSE [ D |-> [ D EXCEPT !.manifests = @ \cup
                         { [ id |-> new_id, assembly_id |-> manifest.assemblyId,
                             provider_id |-> D.provider_id,
                             num_total_files |-> Len(manifest.reportKeys) ] } ],
               manifest_id |-> new_id ]

\* "for report in reports" of download_report, from the i-th key on
RECURSIVE download_reports(_, _, _, _, _, _)
download_reports(D, manifest, manifest_id, i, cur_reports, fault) ==
    IF i > Len(manifest.reportKeys)
    THEN [ D |-> D, cur_reports |-> cur_reports, raised |-> "" ]
    ELSE LET report == manifest.reportKeys[i]
             local_s3_filename == get_local_file_name(report)
             recorder == [ D EXCEPT !.stats =
                             ReportStatsDBAccessor(@, local_s3_filename, manifest_id) ]
             stored_etag == get_etag(recorder.stats, local_s3_filename, manifest_id)
             r == download_file(recorder, report, stored_etag, fault)
             report_dictionary ==
                 [ file |-> r.file, assembly_id |-> manifest.assemblyId,
                   manifest_id |-> manifest_id ]
         IN  IF r.raised # ""
             THEN [ D |-> r.D, cur_reports |-> << >>, raised |-> r.raised ]
             ELSE download_reports(
                      [ r.D EXCEPT !.stats = update_etag(@, local_s3_filename,
                                                         manifest_id, r.etag) ],
                      manifest, manifest_id, i + 1,
                      Append(cur_reports, report_dictionary), fault)

\* download_report
download_report(D, fault) ==
    LET m == get_manifest([ D EXCEPT !.transfers = << >> ], fault)
    IN  IF m.raised # ""
        THEN [ D |-> m.D, cur_reports |-> << >>, raised |-> m.raised ]
        ELSE IF m.manifest = empty_manifest
        THEN [ D |-> m.D, cur_reports |-> << >>, raised |-> "" ]
        ELSE LET rec == process_manifest_db_record(m.D, m.manifest)
             IN  download_reports(rec.D, m.manifest, rec.manifest_id, 1, << >>, fault)

\* the downloader's world in the current state; transfers lists the keys
\* the last invocation transferred, in order
ThisDl ==
    [ remote |-> remote, local_files |-> local_files, stats |-> stats,
      manifests |-> manifests, provider_id |-> "prov1",
      transfers |-> dl.transfers ]

IdleDl == [ pc |-> "idle", cur_reports |-> << >>, transfers |-> << >> ]

\* the world of the downloader constructed with provider_id = provider
DlOf(provider) == [ ThisDl EXCEPT !.provider_id = provider ]

\* a worker invokes download_report of the downloader of a provider
DownloadReport(provider, fault) ==
    LET r == download_report(DlOf(provider), fault)
    IN  /\ local_files' = r.D.local_files
        /\ stats' = r.D.stats
        /\ manifests' = r.D.manifests
        /\ dl' = [ pc |-> IF r.raised = "" THEN "returned" ELSE r.raised,
                   cur_reports |-> r.cur_reports, transfers |-> r.D.transfers ]
        /\ UNCHANGED << remote, procVars, cleaner, taskVars, rp, cur_dir, recording >>

\* the provider writes a report file, or a new version of it
RemotePut(key, etag) ==
    /\ remote[key] # ReportObject(etag)
    /\ remote' = [ remote EXCEPT ![key] = ReportObject(etag) ]
    /\ UNCHANGED << local_files, stats, manifests, dl, procVars, cleaner, taskVars, rp, cur_dir, recording >>

\* the provider publishes the manifest of the period
ManifestPut(body) ==
    /\ remote[ManifestKey] # ManifestObject(body)
    /\ remote' = [ remote EXCEPT ![ManifestKey] = ManifestObject(body) ]
    /\ UNCHANGED << local_files, stats, manifests, dl, procVars, cleaner, taskVars, rp, cur_dir, recording >>

\* an object leaves the bucket
RemoteDelete(key) ==
    /\ remote[key] # NoObject
    /\ remote' = [ remote EXCEPT ![key] = NoObject ]
    /\ UNCHANGED << local_files, stats, manifests, dl, procVars, cleaner, taskVars, rp, cur_dir, recording >>

\* the local copy of a report file is removed
LocalRemove(key) ==
    /\ local_files[get_local_file_name(key)] # NoFile
    /\ local_files' = [ local_files EXCEPT ![get_local_file_name(key)] = NoFile ]
    /\ UNCHANGED << remote, stats, manifests, dl, procVars, cleaner, taskVars, rp, cur_dir, recording >>

InitDl ==
    /\ remote = [ k \in AllKeys |-> NoObject ]
    /\ local_files = [ f \in { get_local_file_name(k) : k \in AllKeys } |-> NoFile ]
    /\ stats = {}
    /\ manifests = {}
    /\ dl = IdleDl

NextDl ==
    \/ \E fault \in AllKeys \cup {NoFault} : DownloadReport("prov1", fault)
    \/ \E key \in ReportKeys, etag \in Etags : RemotePut(key, etag)
    \/ \E body \in ManifestBodies : ManifestPut(body)
    \/ \E key \in AllKeys : RemoteDelete(key)
    \/ \E key \in ReportKeys : LocalRemove(key)

\* ---------------------------------------------------------------------
\* tasks.py: get_report_files and process_report_file

\* timedelta(hours=2), in hours
Timeout == 2

\* the hours the clock of the model runs through
MaxNow == 2

\* the process queue holds at most this many tasks
MaxQueue == 2

\* ReportStatsDBAccessor(file_name): the record of the file
status_record(records, report_name) ==
    { r \in records : r.report_name = report_name }

\* ReportStatsDBAccessor.get_last_started_datetime
get_last_started_datetime(records, report_name) ==
    IF status_record(records, report_name) = {} THEN NoDate
    ELSE (CHOOSE r \in status_record(records, report_name) : TRUE).last_started_datetime

\* ReportStatsDBAccessor.get_last_completed_datetime
get_last_completed_datetime(records, report_name) ==
    IF status_record(records, report_name) = {} THEN NoDate
    ELSE (CHOOSE r \in status_record(records, report_name) : TRUE).last_completed_datetime

\* ReportStatsDBAccessor.log_last_started_datetime and its commit
log_last_started_datetime(records, report_name, today) ==
    { IF r.report_name = report_name
      THEN [ r EXCEPT !.last_started_datetime = << today >> ] ELSE r : r \in records }

\* ReportStatsDBAccessor.log_last_completed_datetime and its commit
log_last_completed_datetime(records, report_name, today) ==
    { IF r.report_name = report_name
      THEN [ r EXCEPT !.last_completed_datetime = << today >> ] ELSE r : r \in records }

\* a loop of get_report_files that submits a task for every report
submit_every_report(reports, records, today, i) ==
    [ j \in 1..(Len(reports) - i + 1) |-> [ report_path |-> reports[j + i - 1].file ] ]

\* a loop of get_report_files that skips every file that was started
submit_never_started_only(reports, records, today, i) ==
    SelectSeq([ j \in 1..(Len(reports) - i + 1) |->
                  [ report_path |-> reports[j + i - 1].file ] ],
              LAMBDA request :
                  get_last_started_datetime(records, basename(request.report_path))
                      = NoDate)

\* a loop of get_report_files that takes a file for complete only when its
\* last completion is not before its last start
RECURSIVE submit_unless_completed_since_start(_, _, _, _)
submit_unless_completed_since_start(reports, records, today, i) ==
    IF i > Len(reports) THEN << >>
    ELSE LET report_dict == reports[i]
             file_name == basename(report_dict.file)
             started_date == get_last_started_datetime(records, file_name)
             completed_date == get_last_completed_datetime(records, file_name)
             request == [ report_path |-> report_dict.file ]
             rest == submit_unless_completed_since_start(reports, records, today, i + 1)
         IN  IF /\ started_date # NoDate /\ completed_date = NoDate
                /\ today < started_date[1] + Timeout
             THEN rest
             ELSE IF /\ started_date # NoDate /\ completed_date # NoDate
                     /\ completed_date[1] >= started_date[1]
             THEN rest
             ELSE << request >> \o rest

\* "for report_dict in reports" of get_report_files, from the i-th report
\* on: the requests passed to process_report_file.delay, in order
RECURSIVE submit_tasks(_, _, _, _)
submit_tasks(reports, records, today, i) ==
    IF i > Len(reports) THEN << >>
    ELSE LET report_dict == reports[i]
             file_name == basename(report_dict.file)
             started_date == get_last_started_datetime(records, file_name)
             completed_date == get_last_completed_datetime(records, file_name)
             request == [ report_path |-> report_dict.file ]
             rest == submit_tasks(reports, records, today, i + 1)
         IN  IF /\ started_date # NoDate /\ completed_date = NoDate
                /\ today < started_date[1] + Timeout
             THEN rest
             ELSE IF started_date # NoDate /\ completed_date # NoDate
             THEN rest
             ELSE << request >> \o rest

\* get_report_files: _get_report_files, then the loop over its reports
get_report_files(D, today, fault) ==
    LET r == download_report(D, fault)
    IN  IF r.raised # ""
        THEN [ D |-> r.D, reports |-> << >>, submitted |-> << >>,
               raised |-> r.raised ]
        ELSE [ D |-> r.D, reports |-> r.cur_reports,
               submitted |-> submit_tasks(r.cur_reports, r.D.stats, today, 1),
               raised |-> "" ]

\* the scheduler and the worker of the process queue at rest; sched is the
\* last call of get_report_files that returned, and beat alternates with
\* every such call
IdleSched ==
    [ pc |-> "idle", reports |-> << >>, submitted |-> << >>, beat |-> 0 ]
IdleTask == [ pc |-> "idle", report_path |-> << >>, failed_at |-> "" ]

\* the report files a downloaded file can be, by its content: a file that
\* processes, or one that ends its run with a transform error or a store
\* error
ReportPaths(content) ==
    { f \in Files :
        Reader(f) \in (IF content.csv = "e1"
                       THEN { << BaseRow, RowOtherUsage >> }
                       ELSE { << BaseRow, RowMalformed >>,
                              << BaseRow, RowInvoiced >> }) }

\* the scheduler runs get_report_files
GetReportFiles(fault) ==
    LET r == get_report_files(ThisDl, now, fault)
    IN  /\ Len(queue) + Len(r.submitted) <= MaxQueue
        /\ local_files' = r.D.local_files
        /\ stats' = r.D.stats
        /\ manifests' = r.D.manifests
        /\ queue' = queue \o r.submitted
        /\ sched' = IF r.raised # "" THEN sched
                     ELSE [ pc |-> "returned", reports |-> r.reports,
                            submitted |-> r.submitted, beat |-> 1 - sched.beat ]
        /\ UNCHANGED << remote, dl, now, task, task2, procVars, cleaner, rp, cur_dir,
                        recording >>

\* a worker takes process_report_file from the queue: the start is logged
\* and the processor is constructed for the file
TaskStart ==
    /\ task.pc # "running"
    /\ queue # << >>
    /\ LET request == Head(queue)
           file_name == basename(request.report_path)
       IN  /\ local_files[file_name] # NoFile
           /\ stats' = log_last_started_datetime(stats, file_name, now)
           /\ task' = [ pc |-> "running", report_path |-> request.report_path,
                         failed_at |-> "" ]
           /\ \E f \in ReportPaths(local_files[file_name]) :
                  proc' = [ proc EXCEPT !["A"] =
                              NewProcessor(tables, f, ProviderOf(f), MaxBatch) ]
    /\ queue' = Tail(queue)
    /\ UNCHANGED << tables, line_items, nextid, cleaner, remote, local_files,
                    manifests, dl, now, sched, rp, cur_dir, recording, task2 >>

\* the run of the task goes on
TaskStep ==
    /\ task.pc = "running"
    /\ ProcessStep("A")

\* process() has returned: the completion is logged
TaskComplete ==
    /\ task.pc = "running"
    /\ proc["A"].pc = "done"
    /\ stats' = log_last_completed_datetime(stats, basename(task.report_path), now)
    /\ task' = [ task EXCEPT !.pc = "completed" ]
    /\ proc' = [ proc EXCEPT !["A"] = IdleProc ]
    /\ UNCHANGED << tables, line_items, nextid, cleaner, remote, local_files,
                    manifests, dl, now, queue, sched, rp, cur_dir, recording, task2 >>

\* the positions at which process() is in a call of the store
StorePcs == {"commit", "bulk", "merge", "clear"}

\* the database raises in a call of the store: process() ends with the
\* exception, the session without commit
TaskStoreError ==
    /\ task.pc = "running"
    /\ proc["A"].pc \in StorePcs
    /\ Apply("A", EndSession(World("A"), "A", "failed"))

\* the kind of error process() has ended with
ErrorOf(P) == IF P.ended_at \in StorePcs THEN "store error" ELSE "transform error"

\* the task logs the completion although process() has raised
TaskFailLogsCompletion ==
    /\ task.pc = "running"
    /\ proc["A"].pc = "failed"
    /\ stats' = log_last_completed_datetime(stats, basename(task.report_path), now)
    /\ task' = [ task EXCEPT !.pc = "failed", !.failed_at = ErrorOf(proc["A"]) ]
    /\ proc' = [ proc EXCEPT !["A"] = IdleProc ]
    /\ UNCHANGED << tables, line_items, nextid, cleaner, remote, local_files,
                    manifests, dl, now, queue, sched, rp, cur_dir, recording, task2 >>

\* process() has raised, in the loop over the rows or in the merge of a
\* batch: the task ends with the exception
TaskFail ==
    /\ task.pc = "running"
    /\ proc["A"].pc = "failed"
    /\ task' = [ task EXCEPT !.pc = "failed", !.failed_at = ErrorOf(proc["A"]) ]
    /\ proc' = [ proc EXCEPT !["A"] = IdleProc ]
    /\ UNCHANGED << tables, line_items, nextid, cleaner, dlVars, now, queue, sched, rp,
                    cur_dir, recording, task2 >>

\* the worker dies in the middle of the run
TaskDie ==
    /\ task.pc = "running"
    /\ Active("A")
    /\ LET W == EndSession(World("A"), "A", "aborted")
       IN  /\ tables' = W.tables
           /\ line_items' = W.line_items
           /\ nextid' = W.nextid
    /\ task' = [ task EXCEPT !.pc = "died" ]
    /\ proc' = [ proc EXCEPT !["A"] = IdleProc ]
    /\ UNCHANGED << cleaner, dlVars, now, queue, sched, rp, cur_dir, recording, task2 >>

\* an hour passes
Tick ==
    /\ now < MaxNow
    /\ now' = now + 1
    /\ UNCHANGED << procVars, cleaner, dlVars, queue, sched, task, task2, rp, cur_dir,
                    recording >>

\* the provider writes a report file of the period
ReportPublished(key, etag) ==
    /\ remote[key] = NoObject
    /\ remote[ManifestKey] = NoObject
    /\ RemotePut(key, etag)

\* the provider publishes the manifest of the period once its report files
\* are written; the manifest lists each of them once
ManifestPublished(body) ==
    /\ remote[ManifestKey] = NoObject
    /\ \A i, j \in 1..Len(body.reportKeys) :
           body.reportKeys[i] = body.reportKeys[j] => i = j
    /\ \A key \in ReportKeys :
           remote[key] # NoObject <=>
               \E i \in 1..Len(body.reportKeys) : body.reportKeys[i] = key
    /\ ManifestPut(body)

InitTasks ==
    /\ now = 0
    /\ queue = << >>
    /\ sched = IdleSched
    /\ task = IdleTask
    /\ task2 = IdleTask

NextTasks ==
    \/ \E fault \in {ManifestKey, NoFault} : GetReportFiles(fault)
    \/ TaskStart
    \/ TaskStep
    \/ TaskComplete
    \/ TaskStoreError
    \/ TaskFail
    \/ TaskDie
    \/ Tick
    \/ \E key \in ReportKeys, etag \in Etags : ReportPublished(key, etag)
    \/ \E body \in ManifestBodies : ManifestPublished(body)

\* a second worker of the process queue takes process_report_file while
\* the first may be in a run: the start is logged and the processor is
\* constructed for the file
Task2Start ==
    /\ task2.pc # "running"
    /\ queue # << >>
    /\ LET request == Head(queue)
           file_name == basename(request.report_path)
       IN  /\ local_files[file_name] # NoFile
           /\ stats' = log_last_started_datetime(stats, file_name, now)
           /\ task2' = [ pc |-> "running", report_path |-> request.report_path,
                          failed_at |-> "" ]
           /\ \E f \in ReportPaths(local_files[file_name]) :
                  proc' = [ proc EXCEPT !["B"] =
                              NewProcessor(tables, f, ProviderOf(f), MaxBatch) ]
    /\ queue' = Tail(queue)
    /\ UNCHANGED << tables, line_items, nextid, cleaner, remote, local_files,
                    manifests, dl, now, sched, rp, cur_dir, recording, task >>

\* the run of the second worker's task goes on
Task2Step ==
    /\ task2.pc = "running"
    /\ ProcessStep("B")

\* process() of the second worker has returned: the completion is logged
Task2Complete ==
    /\ task2.pc = "running"
    /\ proc["B"].pc = "done"
    /\ stats' = log_last_completed_datetime(stats, basename(task2.report_path), now)
    /\ task2' = [ task2 EXCEPT !.pc = "completed" ]
    /\ proc' = [ proc EXCEPT !["B"] = IdleProc ]
    /\ UNCHANGED << tables, line_items, nextid, cleaner, remote, local_files,
                    manifests, dl, now, queue, sched, rp, cur_dir, recording, task >>

\* the provider publishes one period of well-formed files; the scheduler
\* calls get_report_files, and two workers take the tasks of the process
\* queue
NextTasksConc ==
    \/ GetReportFiles(NoFault)
    \/ TaskStart
    \/ TaskStep
    \/ TaskComplete
    \/ Task2Start
    \/ Task2Step
    \/ Task2Complete
    \/ Tick
    \/ \E key \in ReportKeys : ReportPublished(key, "e1")
    \/ \E body \in ManifestBodies : ManifestPublished(body)

\* the provider writes a report file of a published period again, with
\* other content
ReportRewritten(key, etag) ==
    /\ remote[ManifestKey] # NoObject
    /\ remote[key] # NoObject
    /\ remote[key].ETag # etag
    /\ RemotePut(key, etag)

\* the scheduler, the process queue and its worker, with the provider
\* publishing a period and rewriting each of its files afterwards, once
NextTasksRewrite ==
    \/ GetReportFiles(NoFault)
    \/ TaskStart
    \/ TaskStep
    \/ TaskComplete
    \/ TaskFail
    \/ Tick
    \/ \E key \in ReportKeys : ReportPublished(key, "e1")
    \/ \E body \in ManifestBodies : ManifestPublished(body)
    \/ \E key \in ReportKeys : ReportRewritten(key, "e2")

\* ---------------------------------------------------------------------
\* ReportProcessor (report_processor.py): the constructor
\* ---------------------------------------------------------------------
\* the compression kinds a caller passes
Compressions == {"GZIP", "gzip", "Gzip", "PLAIN", "plain", "ZIP", "zip", ""}

\* the schemas and cursor positions a caller passes
Schemas == {"acct1", "acct2"}
CursorPositions == {0, 1}

\* str.upper() of a compression kind
Upper(s) == CASE s \in {"gzip", "Gzip"} -> "GZIP"
              [] s = "plain" -> "PLAIN"
              [] s = "zip" -> "ZIP"
              [] OTHER -> s

\* masu.external and masu.processor
UNCOMPRESSED == "PLAIN"
GZIP_COMPRESSED == "GZIP"
ALLOWED_COMPRESSIONS == {UNCOMPRESSED, GZIP_COMPRESSED}

\* no ReportProcessor has been constructed
NoProcessor ==
    [ pc |-> "none",
      args |-> [ schema_name |-> "", report_path |-> 0, compression |-> "",
                 cursor_pos |-> 0 ],
      compression |-> "", reached |-> << >> ]

\* the constructor up to its first accessor: the check of the compression
\* and the attributes set from the arguments
init_check(args) ==
    IF Upper(args.compression) \notin ALLOWED_COMPRESSIONS
    THEN [ pc |-> "MasuProcessingError", args |-> args, compression |-> "",
           reached |-> << >> ]
    ELSE [ pc |-> "init", args |-> args, compression |-> Upper(args.compression),
           reached |-> << >> ]

\* the accessors the constructor creates and the queries that load current
\* bill and identifier maps, in the order of the code
init_accessors(R) ==
    IF R.pc # "init" THEN R
    ELSE [ R EXCEPT !.pc = "constructed",
                    !.reached = @ \o << "ReportingCommonDBAccessor", "ReportDBAccessor",
                                        "get_current_cost_entry_bill",
                                        "get_cost_entries", "get_products",
                                        "get_pricing", "get_reservations" >> ]

\* __init__ with the check of the compression after the accessors and maps
ReportProcessor_init_checks_last(args) ==
    LET R == init_accessors([ pc |-> "init", args |-> args,
                              compression |-> Upper(args.compression),
                              reached |-> << >> ])
    IN  IF Upper(args.compression) \notin ALLOWED_COMPRESSIONS
        THEN [ R EXCEPT !.pc = "MasuProcessingError", !.compression = "" ]
        ELSE R

\* ReportProcessor.__init__
ReportProcessor_init(args) == init_accessors(init_check(args))

\* _get_file_opener: the opener and the mode, or nothing
get_file_opener(compression) ==
    CASE compression = UNCOMPRESSED -> << "open", "r" >>
      [] compression = GZIP_COMPRESSED -> << "gzip.open", "rt" >>
      [] OTHER -> << >>

\* a caller constructs a ReportProcessor
ConstructReportProcessor(schema_name, report_path, compression, cursor_pos) ==
    /\ rp' = ReportProcessor_init([ schema_name |-> schema_name,
                                    report_path |-> report_path,
                                    compression |-> compression,
                                    cursor_pos |-> cursor_pos ])
    /\ UNCHANGED << procVars, cleaner, dlVars, taskVars, cur_dir, recording >>

NextConstruct ==
    \E schema_name \in Schemas, report_path \in Files,
       compression \in Compressions, cursor_pos \in CursorPositions :
        ConstructReportProcessor(schema_name, report_path, compression, cursor_pos)

\* ---------------------------------------------------------------------
\* AWSReportProcessor.remove_temp_cur_files and the directory it cleans

\* the assembly ids, and the manifest ids of the status records
Uuids == {"a1", "a2"}
ManifestIds == {1, 2}

\* file names, each the sequence of its parts: the manifest of the report,
\* report files named after their assembly, and one with no id in its name
ManifestName == << "cur", "-", "Manifest.json" >>
TempNames ==
    { << "a1", "-", "cur-1.csv" >>, << "a2", "-", "cur-1.csv" >>, << "cur-1.csv" >> }

\* str.endswith, for a suffix that is the last part of the name
endswith(file, suffix) == file[Len(file)] = suffix

\* extract_uuids_from_string: the ids in the name, in order
extract_uuids_from_string(file) == SelectSeq(file, LAMBDA part : part \in Uuids)

\* list.pop()
pop(list) == list[Len(list)]

\* the directory: its file names, the document in its manifest file, the
\* status records of its files, and how the last call ended: the manifest
\* id it was given, the files it returned and the files remove() missed
EmptyDir ==
    [ files |-> {}, manifest_json |-> [ assemblyId |-> None ], stats |-> {},
      pc |-> "idle", manifest_id |-> 0, removed_files |-> {}, missing |-> {} ]

\* the status records of one manifest
StatsOf(records, manifest_id) == { r \in records : r.manifest_id = manifest_id }

\* the first loop: the assembly id of the manifest file, if there is one
current_assembly_id(T) ==
    IF \E file \in T.files : endswith(file, "Manifest.json")
    THEN T.manifest_json.assemblyId
    ELSE None

\* the first loop: the status record of every other file is opened, added
\* when there is none
temp_stats(T, manifest_id) ==
    LET others == { file \in T.files : ~ endswith(file, "Manifest.json") }
        added == { [ report_name |-> file, manifest_id |-> manifest_id,
                     etag |-> None, last_started_datetime |-> NoDate,
                     last_completed_datetime |-> NoDate ] :
                   file \in { f \in others :
                                status_record(StatsOf(T.stats, manifest_id), f) = {} } }
    IN  T.stats \cup added

\* the first loop: the files with a completion date for the manifest
completed_files(T, manifest_id) ==
    { file \in T.files :
        /\ ~ endswith(file, "Manifest.json")
        /\ get_last_completed_datetime(StatsOf(T.stats, manifest_id), file) # NoDate }

\* remove_temp_cur_files that takes every file of another assembly
remove_temp_cur_files_ignores_completion(T, manifest_id, vanished) ==
    LET named == { file \in T.files :
                     /\ ~ endswith(file, "Manifest.json")
                     /\ extract_uuids_from_string(file) # << >> }
        victims == { file \in named :
                       pop(extract_uuids_from_string(file)) # current_assembly_id(T) }
    IN  [ T EXCEPT !.stats = temp_stats(T, manifest_id),
                   !.files = @ \ victims,
                   !.pc = "returned", !.manifest_id = manifest_id,
                   !.removed_files = victims \ vanished,
                   !.missing = victims \cap vanished ]

\* remove_temp_cur_files; vanished are the files that leave the directory
\* between listdir and remove
remove_temp_cur_files(T, manifest_id, vanished) ==
    LET victim_list == completed_files(T, manifest_id)
    IN  IF \E file \in victim_list : extract_uuids_from_string(file) = << >>
        THEN [ T EXCEPT !.stats = temp_stats(T, manifest_id),
                        !.pc = "IndexError", !.manifest_id = manifest_id,
                        !.removed_files = {}, !.missing = {} ]
        ELSE LET victims == { file \in victim_list :
                                pop(extract_uuids_from_string(file)) #
                                    current_assembly_id(T) }
             IN  [ T EXCEPT !.stats = temp_stats(T, manifest_id),
                            !.files = @ \ victims,
                            !.pc = "returned", !.manifest_id = manifest_id,
                            !.removed_files = victims \ vanished,
                            !.missing = victims \cap vanished ]

\* everything but the directory
notDir == << procVars, cleaner, dlVars, taskVars, rp, recording >>

\* the directory with the result of the last call dropped
Forgotten(T) ==
    [ T EXCEPT !.pc = "idle", !.manifest_id = 0, !.removed_files = {},
               !.missing = {} ]

\* the downloader writes a report file
TempFileWritten(file) ==
    /\ file \notin cur_dir.files
    /\ cur_dir' = [ Forgotten(cur_dir) EXCEPT !.files = @ \cup {file} ]
    /\ UNCHANGED notDir

\* the downloader writes the manifest of an assembly, or a document
\* without an assembly id
TempManifestWritten(assembly_id) ==
    /\ ManifestName \notin cur_dir.files \/ cur_dir.manifest_json.assemblyId # assembly_id
    /\ cur_dir' = [ Forgotten(cur_dir) EXCEPT !.files = @ \cup {ManifestName},
                      !.manifest_json = [ assemblyId |-> assembly_id ] ]
    /\ UNCHANGED notDir

\* the processing of a file of the directory completes for a manifest
TempFileCompleted(file, manifest_id) ==
    /\ file \in cur_dir.files
    /\ get_last_completed_datetime(StatsOf(cur_dir.stats, manifest_id), file) = NoDate
    /\ cur_dir' =
           [ Forgotten(cur_dir) EXCEPT
               !.stats =
                   (@ \ StatsOf(@, manifest_id)) \cup
                   log_last_completed_datetime(
                       ReportStatsDBAccessor(StatsOf(@, manifest_id), file, manifest_id),
                       file, 1) ]
    /\ UNCHANGED notDir

\* a call of remove_temp_cur_files
RemoveTempCurFiles(manifest_id, vanished) ==
    /\ cur_dir' = remove_temp_cur_files(cur_dir, manifest_id, vanished)
    /\ UNCHANGED notDir

NextTemp ==
    \/ \E file \in TempNames : TempFileWritten(file)
    \/ \E assembly_id \in Uuids \cup {None} : TempManifestWritten(assembly_id)
    \/ \E file \in TempNames, manifest_id \in ManifestIds :
           TempFileCompleted(file, manifest_id)
    \/ \E manifest_id \in ManifestIds,
          vanished \in {{}} \cup { {file} : file \in cur_dir.files } :
           RemoveTempCurFiles(manifest_id, vanished)

\* ---------------------------------------------------------------------
\* AWSReportDownloader._process_manifest_db_record, statement by statement,
\* in the invocations of two workers

\* an invocation outside the method; found is the id of the row
\* get_manifest gave, or NoId
IdleRecorder ==
    [ pc |-> "idle", assembly_id |-> "", provider_id |-> "", found |-> NoId,
      manifest_id |-> NoId ]

\* manifest_accessor.get_manifest(assembly_id, self._provider_id)
record_lookup(rows, assembly_id, provider_id) ==
    LET found == { m \in rows : m.assembly_id = assembly_id
                                /\ m.provider_id = provider_id }
    IN  [ pc |-> "looked", assembly_id |-> assembly_id, provider_id |-> provider_id,
          found |-> IF found = {} THEN NoId
                    ELSE (CHOOSE m \in found : \A n \in found : m.id <= n.id).id,
          manifest_id |-> NoId ]

\* the row manifest_accessor.add(manifest_dict) inserts
record_row(rows, R) ==
    [ id |-> Cardinality(rows) + 1, assembly_id |-> R.assembly_id,
      provider_id |-> R.provider_id, num_total_files |-> 1 ]

\* the rest of the method: "if not manifest_entry" the add, then the
\* commits and the return of the id; unique says whether the table refuses
\* a second row of the key
record_finish(rows, R, unique) ==
    IF R.found # NoId
    THEN [ rows |-> rows, R |-> [ R EXCEPT !.pc = "returned", !.manifest_id = R.found ] ]
    ELSE IF unique /\ \E m \in rows : m.assembly_id = R.assembly_id
                                     /\ m.provider_id = R.provider_id
    THEN [ rows |-> rows, R |-> [ R EXCEPT !.pc = "IntegrityError" ] ]
    ELSE [ rows |-> rows \cup { record_row(rows, R) },
           R |-> [ R EXCEPT !.pc = "returned",
                     !.manifest_id = record_row(rows, R).id ] ]

\* everything but the manifest records and the invocations
notRecorder ==
    << procVars, cleaner, remote, local_files, stats, dl, taskVars, rp, cur_dir >>

\* a worker's download_report reaches the method and looks the record up
RecordLookup(i, assembly_id, provider_id) ==
    /\ recording[i].pc # "looked"
    /\ recording' = [ recording EXCEPT ![i] =
                       record_lookup(manifests, assembly_id, provider_id) ]
    /\ UNCHANGED << manifests, notRecorder >>

\* the invocation goes on to the end of the method
RecordFinish(i, unique) ==
    /\ recording[i].pc = "looked"
    /\ LET r == record_finish(manifests, recording[i], unique)
       IN  /\ manifests' = r.rows
           /\ recording' = [ recording EXCEPT ![i] = r.R ]
    /\ UNCHANGED notRecorder

NextRecConc ==
    \/ \E i \in Procs, assembly_id \in Uuids, provider_id \in Providers :
           RecordLookup(i, assembly_id, provider_id)
    \/ \E i \in Procs, unique \in BOOLEAN : RecordFinish(i, unique)

InitProc ==
    /\ tables = [ t \in TableNames |-> {} ]
    /\ line_items = << >>
    /\ nextid = [ t \in TableNames |-> 0 ]
    /\ proc = [ p \in Procs |-> IdleProc ]

vars == << tables, line_items, nextid, proc, cleaner, remote, local_files,
           stats, manifests, dl, now, queue, sched, task, rp, cur_dir, recording,
           task2 >>

Init ==
    /\ InitProc /\ cleaner = IdleCleaner /\ InitDl /\ InitTasks
    /\ rp = NoProcessor /\ cur_dir = EmptyDir
    /\ recording = [ i \in Procs |-> IdleRecorder ]

\* runs one after the other: a run starts when no other run is under way
NextSeq ==
    \E p \in Procs :
        \/ /\ proc[p].pc = "idle"
           /\ StartsInOrder(p)
           /\ \A q \in Procs : ~ Active(q)
           /\ \E report_path \in Files, batch_size \in 1..MaxBatch :
                  Construct(p, report_path, batch_size)
        \/ ProcessStep(p)
        \/ Abort(p)

Spec == Init /\ [][NextSeq]_vars

\* runs side by side on two workers, each to its end: a run starts at any
\* time, and the steps of the two interleave
NextConc ==
    \E p \in Procs :
        \/ /\ proc[p].pc = "idle"
           /\ StartsInOrder(p)
           /\ \E report_path \in Files, batch_size \in 1..MaxBatch :
                  Construct(p, report_path, batch_size)
        \/ ProcessStep(p)

SpecConc == Init /\ [][NextConc]_vars

\* runs one after the other over the files of particular interest, with
\* batch sizes up to the length of the longest of them
NextExample ==
    \E p \in Procs :
        \/ /\ proc[p].pc = "idle"
           /\ StartsInOrder(p)
           /\ \A q \in Procs : ~ Active(q)
           /\ \E report_path \in ExampleFiles, batch_size \in 1..MaxExampleRows :
                  Construct(p, report_path, batch_size)
        \/ ProcessStep(p)

SpecExample == Init /\ [][NextExample]_vars

\* constructions of ReportProcessor with every kind of argument
SpecConstruct == Init /\ [][NextConstruct]_vars

\* the rows the session of the cleaner would leave behind with a parent
\* missing, were its deletes committed
LeftDangling(C) ==
    LET gone == { b.id : b \in bill_objects_query(C.tables.bill,
                                  C.K.expired_date, C.K.provider_id) }
    IN  \/ \E c \in Durable(C.tables.cost_entry) :
               c.id \notin C.K.deleted.cost_entries /\ c.bill_id \in gone
        \/ \E i \in 1..Len(C.line_items) :
               /\ ConflictKey(C.line_items[i]) \notin C.K.deleted.line_items
               /\ \/ C.line_items[i].cost_entry_bill_id \in gone
                  \/ C.line_items[i].cost_entry_id \in C.K.deleted.cost_entries

\* the database refuses the deletes of the call because a row that stays
\* refers to a row that goes: the call ends with the error, nothing deleted
PurgeRefused ==
    /\ cleaner.pc = "loop"
    /\ cleaner.pos = Len(cleaner.bill_objects)
    /\ ~ cleaner.simulate
    /\ LeftDangling(CleanerWorld)
    /\ cleaner' = [ cleaner EXCEPT !.pc = "IntegrityError",
                      !.deleted = IdleCleaner.deleted ]
    /\ UNCHANGED << tables, line_items, nextid, proc, dlVars, taskVars, rp, cur_dir,
                    recording >>

\* one purge at any time while processing runs follow one another
NextPurgeConc ==
    \/ \E p \in Procs :
           \/ /\ proc[p].pc = "idle"
              /\ StartsInOrder(p)
              /\ \A q \in Procs : ~ Active(q)
              /\ \E report_path \in Files : Construct(p, report_path, MaxBatch)
           \/ ProcessStep(p)
    \/ /\ cleaner.pc = "idle"
       /\ \/ \E expired_date \in CutoffDates, simulate \in BOOLEAN :
                 PurgeCall(expired_date, None, simulate)
          \/ \E provider_id \in Providers, simulate \in BOOLEAN :
                 PurgeCall(NoDate, provider_id, simulate)
    \/ PurgeBill
    \/ PurgeReturn
    \/ PurgeRefused

SpecPurgeConc == Init /\ [][NextPurgeConc]_vars

\* two workers in _process_manifest_db_record at once
SpecRecConc == Init /\ [][NextRecConc]_vars

\* a directory of report files: files written, completed and cleaned up
SpecTemp == Init /\ [][NextTemp]_vars

\* the downloader on its own: invocations, and the provider and the local
\* directory changing between them
SpecDl == Init /\ [][NextDl]_vars

\* the downloaders of two providers over a bucket in which the manifests of
\* two assemblies follow one another
RecordAssemblies == {"a1", "a2"}
RecordBodies ==
    { [ assemblyId |-> a, reportKeys |-> << "k1" >> ] : a \in RecordAssemblies }

NextRec ==
    \/ \E provider \in Providers : DownloadReport(provider, NoFault)
    \/ \E body \in RecordBodies : ManifestPut(body)
    \/ RemotePut("k1", "e1")

SpecRec == Init /\ [][NextRec]_vars

\* a run starts when no run and no purge is under way
ConstructBetweenPurges(p) ==
    /\ cleaner.pc # "loop"
    /\ proc[p].pc = "idle"
    /\ StartsInOrder(p)
    /\ \A q \in Procs : ~ Active(q)
    /\ \E report_path \in Files : Construct(p, report_path, MaxBatch)

\* a purge starts when no run is under way
PurgeBetweenRuns(expired_date, provider_id, simulate) ==
    /\ \A q \in Procs : ~ Active(q)
    /\ PurgeCall(expired_date, provider_id, simulate)

\* processing runs one after the other, each to its end, and purges
\* between them
NextClean ==
    \/ \E p \in Procs : ConstructBetweenPurges(p) \/ ProcessStep(p)
    \/ \E expired_date \in CutoffDates \cup {NoDate},
          provider_id \in Providers \cup {None}, simulate \in BOOLEAN :
            PurgeBetweenRuns(expired_date, provider_id, simulate)
    \/ PurgeBill
    \/ PurgeReturn
    \/ PurgeAbort

SpecClean == Init /\ [][NextClean]_vars

\* the scheduler, the process queue and its worker, with the provider
\* publishing the files and then the manifest of a period
SpecTasks == Init /\ [][NextTasks]_vars

\* the scheduler and the worker while the files of the period change
SpecTasksRewrite == Init /\ [][NextTasksRewrite]_vars

\* the scheduler and two workers of the process queue
SpecTasksConc == Init /\ [][NextTasksConc]_vars

(***************************************************************************)
(* Whole runs from a given database, and the durable state with the        *)
(* surrogate ids replaced by the business keys they stand for.             *)
(***************************************************************************)
EmptyDB ==
    [ tables |-> [ t \in TableNames |-> {} ], line_items |-> << >>,
      nextid |-> [ t \in TableNames |-> 0 ] ]

\* the database after an uninterrupted run of instance p from database db,
\* and how the run ended
Run(db, p, report_path, batch_size) ==
    LET W == process([ tables |-> db.tables, line_items |-> db.line_items,
                       nextid |-> db.nextid,
                       P |-> NewProcessor(db.tables, report_path,
                                          ProviderOf(report_path), batch_size) ], p)
    IN  [ tables |-> W.tables, line_items |-> W.line_items,
          nextid |-> W.nextid, pc |-> W.P.pc ]

\* the database of the current state
ThisDB == [ tables |-> tables, line_items |-> line_items, nextid |-> nextid ]

\* the key of the durable row an id refers to
KeyOfId(tbl, id, key_name) ==
    IF id = NoId THEN << >>
    ELSE IF \E r \in Durable(tbl) : r.id = id
    THEN << KeyFor(key_name, CHOOSE r \in Durable(tbl) : r.id = id) >>
    ELSE << "dangling" >>

BillView(db) ==
    { [ key |-> BillKey(b), provider_id |-> b.provider_id ] :
        b \in Durable(db.tables.bill) }

CostEntryView(db) ==
    { [ bill |-> KeyOfId(db.tables.bill, c.bill_id, "bill"),
        interval_start |-> c.interval_start,
        interval_end |-> c.interval_end ] : c \in Durable(db.tables.cost_entry) }

CostEntryRef(db, id) ==
    IF \E c \in Durable(db.tables.cost_entry) : c.id = id
    THEN LET c == CHOOSE c \in Durable(db.tables.cost_entry) : c.id = id
         IN  << KeyOfId(db.tables.bill, c.bill_id, "bill"), c.interval_start >>
    ELSE << "dangling" >>

LineItemView(db) ==
    { [ db.line_items[i] EXCEPT
          !.cost_entry_id = CostEntryRef(db, @),
          !.cost_entry_bill_id = KeyOfId(db.tables.bill, @, "bill"),
          !.cost_entry_product_id = KeyOfId(db.tables.product, @, "product"),
          !.cost_entry_pricing_id = KeyOfId(db.tables.pricing, @, "pricing"),
          !.cost_entry_reservation_id =
              KeyOfId(db.tables.reservation, @, "reservation") ] :
        i \in 1..Len(db.line_items) }

\* the (hash, cost_entry_id) keys of the durable line items
LineItemKeys(items) == { ConflictKey(items[i]) : i \in 1..Len(items) }

SamePath(p, q) ==
    /\ proc[p].report_path = proc[q].report_path
    /\ proc[p].report_path \in Files

(***************************************************************************)
(* Claims.                                                                 *)
(***************************************************************************)
\* C1: after a complete run over a file, a second complete run over the
\* same file, with any batch size, leaves the line item table with the same
\* number of rows and the same set of (hash, cost_entry_id) keys.
C1_IdempotentReprocessing ==
    (proc["A"].pc = "done" /\ proc["B"].pc = "done" /\ SamePath("A", "B")) =>
        LET first == Run(EmptyDB, "A", proc["A"].report_path, proc["A"].batch_size)
        IN  /\ Len(line_items) = Len(first.line_items)
            /\ LineItemKeys(line_items) = LineItemKeys(first.line_items)

\* a two-row file was processed twice to the end, with different batch sizes
C1_Witness ==
    /\ proc["A"].pc = "done" /\ proc["B"].pc = "done" /\ SamePath("A", "B")
    /\ Len(Reader(proc["A"].report_path)) = 2
    /\ proc["A"].batch_size # proc["B"].batch_size
    /\ Len(line_items) = 2

\* C2: in every reachable state no two durable line items share the same
\* (hash, cost_entry_id) pair.
C2_DedupKeyUniqueness ==
    \A i, j \in 1..Len(line_items) :
        i # j => ConflictKey(line_items[i]) # ConflictKey(line_items[j])

\* a merge met a row whose key was already in the durable table, which
\* holds several rows
C2_Witness ==
    /\ proc["A"].pc = "done" /\ proc["B"].pc = "clear"
    /\ Len(line_items) >= 2
    /\ \E i \in 1..Len(proc["B"].temp_table) :
          \E k \in 1..Len(Run(EmptyDB, "A", proc["A"].report_path,
                              proc["A"].batch_size).line_items) :
             ConflictKey(proc["B"].temp_table[i]) =
             ConflictKey(Run(EmptyDB, "A", proc["A"].report_path,
                             proc["A"].batch_size).line_items[k])

\* the durable rows of a table with a given key
RowsWithKey(tbl, key, key_name) == { r \in Durable(tbl) : KeyFor(key_name, r) = key }

\* some durable line item carries the row's content hash and refers to the
\* dimension rows that bill_key and the row's product and pricing keys name
RowResolved(row, bill_key) ==
    LET db == ThisDB
        product == get_data_for_table(row, "product")
        pricing == get_data_for_table(row, "pricing")
        hash == hash_string_to_hex(
                    create_line_item_hash_string(get_data_for_table(row, "line_item")))
    IN  \E v \in LineItemView(db) :
            /\ v.hash = hash
            /\ v.cost_entry_bill_id = << bill_key >>
            /\ v.cost_entry_product_id =
                   IF AllEmpty(product) THEN << >> ELSE << ProductKey(product) >>
            /\ v.cost_entry_pricing_id =
                   IF AllEmpty(pricing) THEN << >> ELSE << PricingUnique(pricing) >>

\* exactly one durable row exists for each of the keys
OneRowPerKey(row, bill_key) ==
    LET product == get_data_for_table(row, "product")
        pricing == get_data_for_table(row, "pricing")
    IN  /\ Cardinality(RowsWithKey(tables.bill, bill_key, "bill")) = 1
        /\ ~ AllEmpty(product) =>
             Cardinality(RowsWithKey(tables.product, ProductKey(product),
                                     "product")) = 1
        /\ ~ AllEmpty(pricing) =>
             Cardinality(RowsWithKey(tables.pricing, PricingUnique(pricing),
                                     "pricing")) = 1

\* C4: for every row of a completed run, exactly one durable row exists for
\* the row's Bill key, for its Product key and for its Pricing key, and the
\* run resolved each key to that row's identifier.
C4_BusinessKeyConvergence ==
    \A p \in Procs :
        proc[p].pc = "done" =>
            \A i \in 1..Len(Reader(proc[p].report_path)) :
                LET row == Reader(proc[p].report_path)[i]
                    bill_key == BillKey(get_data_for_table(row, "bill"))
                IN  OneRowPerKey(row, bill_key) /\ RowResolved(row, bill_key)

\* C5: a run aborted at any point, followed by a fresh run of the same file
\* to completion, leaves the durable Bill, CostEntry and LineItem sets that
\* a single uninterrupted run of the file produces.
C5_CrashRetryConvergence ==
    (proc["A"].pc = "aborted" /\ proc["B"].pc = "done" /\ SamePath("A", "B")) =>
        LET single == Run(EmptyDB, "B", proc["B"].report_path, proc["B"].batch_size)
        IN  /\ BillView(ThisDB) = BillView(single)
            /\ CostEntryView(ThisDB) = CostEntryView(single)
            /\ LineItemView(ThisDB) = LineItemView(single)
            /\ Len(line_items) = Len(single.line_items)

\* the first run died after the merge of its first batch, with a row of the
\* file still unread, and the retry ran to the end
C5_Witness ==
    /\ proc["A"].pc = "aborted" /\ proc["B"].pc = "done" /\ SamePath("A", "B")
    /\ proc["A"].ended_at \in {"clear", "update"}
    /\ proc["A"].pos < Len(Reader(proc["A"].report_path))
    /\ Len(line_items) = 2

\* the durable rows of a dimension table, without identifier and version
DimView(tbl) ==
    { [ k \in DOMAIN r \ {"id", "xid"} |-> r[k] ] : r \in Durable(tbl) }

\* the durable state by content: identifiers are replaced by the keys of the
\* rows they refer to
FullView(db) ==
    [ bill |-> BillView(db), cost_entry |-> CostEntryView(db),
      product |-> DimView(db.tables.product),
      pricing |-> DimView(db.tables.pricing),
      reservation |-> DimView(db.tables.reservation),
      line_item |-> LineItemView(db) ]

\* the number of durable rows of every table
RowCounts(db) ==
    [ t \in TableNames |-> Cardinality(Durable(db.tables[t])) ]
        @@ [ line_item |-> Len(db.line_items) ]

\* the (hash, cost entry) keys of the line items, the cost entry by its key
LineItemKeyView(db) ==
    { << db.line_items[i].hash, CostEntryRef(db, db.line_items[i].cost_entry_id) >> :
        i \in 1..Len(db.line_items) }

Ended(p) == proc[p].pc \in {"done", "failed"}

\* the two runs of the current state, one after the other from an empty
\* database: first p, then q
InOrder(p, q) ==
    Run(Run(EmptyDB, p, proc[p].report_path, proc[p].batch_size),
        q, proc[q].report_path, proc[q].batch_size)

RemovedItems(bills) ==
    [ i \in 1..Len(bills) |->
        [ account_payer_id |-> bills[i].payer_account_id,
          billing_period_start |-> ToString(bills[i].billing_period_start) ] ]

\* no durable row is left of the bills, nor of their cost entries and line
\* items
BillsGone(db, bills) ==
    \A i \in 1..Len(bills) :
        /\ \A b \in Durable(db.tables.bill) : b.id # bills[i].id
        /\ \A c \in Durable(db.tables.cost_entry) : c.bill_id # bills[i].id
        /\ \A j \in 1..Len(db.line_items) :
               db.line_items[j].cost_entry_bill_id # bills[i].id

\* the call that has just selected its bills, run to its return in the
\* given mode
RestOfPurge(simulate) ==
    purge_run([ CleanerWorld EXCEPT !.K.simulate = simulate ])

\* C8: from one database state and with one selector, the simulated call
\* returns the list that the executing call returns, entry by entry, and
\* the executing call removes the bills of the list with their cost entries
\* and line items; a call that has returned has listed the bills it
\* selected, and in execute mode none of them is left.
C8_SimulateExecuteSymmetry ==
    /\ (cleaner.pc = "loop" /\ cleaner.pos = 0) =>
           LET sim == RestOfPurge(TRUE)
               exec == RestOfPurge(FALSE)
           IN  /\ sim.K.pc = "returned" /\ exec.K.pc = "returned"
               /\ sim.K.removed_items = exec.K.removed_items
               /\ exec.K.removed_items = RemovedItems(cleaner.bill_objects)
               /\ BillsGone(exec, cleaner.bill_objects)
    /\ cleaner.pc = "returned" =>
           /\ cleaner.removed_items = RemovedItems(cleaner.bill_objects)
           /\ cleaner.simulate = FALSE => BillsGone(ThisDB, cleaner.bill_objects)

\* an executing call has returned a list of two bills, and line items had
\* been stored for them
C8_Witness ==
    /\ cleaner.pc = "returned" /\ cleaner.simulate = FALSE
    /\ Len(cleaner.removed_items) = 2
    /\ cleaner.removed_items[1] # cleaner.removed_items[2]
    /\ line_items = << >>
    /\ nextid.cost_entry > 0

\* a step of a call of purge_expired_report_data
CleanerStep == cleaner' # cleaner

\* C9: no step of a simulated call changes the Bill, CostEntry or LineItem
\* table, or any other table, and none deletes a row in the call's session.
C9_SimulateNoMutation ==
    [][ (CleanerStep /\ cleaner'.simulate) =>
            /\ tables' = tables
            /\ line_items' = line_items
            /\ cleaner'.deleted = IdleCleaner.deleted ]_vars

\* a simulated call has returned a bill that is still stored, with a line
\* item of it
C9_Witness ==
    /\ cleaner.pc = "returned" /\ cleaner.simulate
    /\ cleaner.removed_items # << >>
    /\ \E b \in Durable(tables.bill) : b.id = cleaner.bill_objects[1].id
    /\ \E i \in 1..Len(line_items) :
           line_items[i].cost_entry_bill_id = cleaner.bill_objects[1].id

\* the arguments of the call are both given, or neither is
BadArguments(K) ==
    \/ (K.expired_date = NoDate /\ K.provider_id = None)
    \/ (K.expired_date # NoDate /\ K.provider_id # None)

\* C10: a call with both expired_date and provider_id, or with neither,
\* raises AWSReportDBCleanerError with no bill selected, no row deleted and
\* the database as it was; a call with exactly one of them goes on to select
\* its bills and never ends with this error.
C10_ArgumentExclusivity ==
    [][ (CleanerStep /\ cleaner.pc # "loop") =>
            IF BadArguments(cleaner')
            THEN /\ cleaner'.pc = "raised"
                 /\ cleaner'.bill_objects = << >>
                 /\ cleaner'.deleted = IdleCleaner.deleted
                 /\ tables' = tables /\ line_items' = line_items
            ELSE cleaner'.pc = "loop" ]_vars

\* a call with both arguments has raised while bills and line items that
\* either selector covers are stored
C10_Witness ==
    /\ cleaner.pc = "raised"
    /\ cleaner.expired_date # NoDate /\ cleaner.provider_id # None
    /\ bill_objects_query(tables.bill, cleaner.expired_date, None) # {}
    /\ bill_objects_query(tables.bill, NoDate, cleaner.provider_id) # {}
    /\ line_items # << >>

\* an invocation of download_report in the current state
Invocation(fault) == download_report(ThisDl, fault)

\* the invocation that follows it, nothing having changed in between
SecondInvocation(first) == download_report(first.D, NoFault)

\* how often an invocation transferred the key
Transfers(transfers, key) ==
    Cardinality({ i \in 1..Len(transfers) : transfers[i] = key })

\* C6 as stated: after an invocation that returned, a second invocation with
\* nothing changed remotely and the local copies in place transfers no
\* object at all, the manifest document included.
C6_NoTransferSecondTime ==
    \A fault \in AllKeys \cup {NoFault} :
        LET first == Invocation(fault)
        IN  first.raised = "" => SecondInvocation(first).D.transfers = << >>

\* C6 amended: after an invocation that returned, a second invocation with
\* nothing changed remotely and the local copies in place transfers no
\* report file and returns the same files; the manifest document, when the
\* bucket holds one, is transferred again, once.
C6_NoReportTransferSecondTime ==
    \A fault \in AllKeys \cup {NoFault} :
        LET first == Invocation(fault)
            second == SecondInvocation(first)
        IN  first.raised = "" =>
                /\ second.raised = ""
                /\ second.cur_reports = first.cur_reports
                /\ second.D.transfers =
                       IF remote[ManifestKey] = NoObject THEN << >>
                       ELSE << ManifestKey >>

\* an invocation returned two files and transferred the manifest only
C6_Witness ==
    /\ dl.pc = "returned"
    /\ Len(dl.cur_reports) = 2
    /\ dl.cur_reports[1].file # dl.cur_reports[2].file
    /\ dl.transfers = << ManifestKey >>

\* the tag recorded for a report file of the manifest now in the bucket
RecordedTag(D, key) ==
    LET found == { m \in D.manifests :
                     m.assembly_id = D.remote[ManifestKey].Body.assemblyId
                     /\ m.provider_id = D.provider_id }
    IN  IF found = {} THEN None
        ELSE get_etag(D.stats, get_local_file_name(key),
                      (CHOOSE m \in found : TRUE).id)

\* download_report reaches the i-th file of the manifest and handles it
Handles(i, fault) ==
    /\ fault # ManifestKey /\ remote[ManifestKey] # NoObject
    /\ i \in 1..Len(remote[ManifestKey].Body.reportKeys)
    /\ \A j \in 1..i :
           LET key == remote[ManifestKey].Body.reportKeys[j]
           IN  fault # key /\ remote[key] # NoObject

\* C7: an invocation transfers a report file it handles once if the remote
\* tag differs from the recorded tag or the local copy is missing, and not
\* at all otherwise; afterwards the recorded tag is the remote tag and the
\* local copy has the remote content, and the next invocation, with nothing
\* changed, does not transfer the file.
C7_PerFileTransferRule ==
    \A fault \in AllKeys \cup {NoFault} :
        \A i \in 1..MaxListed :
            Handles(i, fault) =>
                LET first == Invocation(fault)
                    key == remote[ManifestKey].Body.reportKeys[i]
                    skip == /\ remote[key].ETag = RecordedTag(ThisDl, key)
                            /\ local_files[get_local_file_name(key)] # NoFile
                IN  /\ Transfers(first.D.transfers, key) = IF skip THEN 0 ELSE 1
                    /\ RecordedTag(first.D, key) = remote[key].ETag
                    /\ first.D.local_files[get_local_file_name(key)] = remote[key].Body
                    /\ Transfers(SecondInvocation(first).D.transfers, key) = 0

\* an invocation handled two files: it transferred the one whose tag had
\* changed and skipped the other
C7_Witness ==
    /\ dl.pc = "returned"
    /\ Len(dl.cur_reports) = 2
    /\ dl.transfers = << ManifestKey, "k1" >>
    /\ remote["k1"].ETag = "e2"
    /\ remote[ManifestKey].Body.reportKeys = << "k1", "k2" >>
    /\ \A key \in ReportKeys : RecordedTag(ThisDl, key) = remote[key].ETag

\* the database as the session of the cleaner sees it: the durable rows
\* less the rows the session has deleted and not yet committed
CleanerSessionView(C) ==
    [ bill |-> { b.id : b \in Durable(C.tables.bill) },
      cost_entry |-> { c \in Durable(C.tables.cost_entry) :
                         c.id \notin C.K.deleted.cost_entries },
      line_items |-> SelectSeq(C.line_items,
          LAMBDA item : ConflictKey(item) \notin C.K.deleted.line_items) ]

\* every cost entry and line item refers to parents that are there
NoDanglingReference(V) ==
    /\ \A c \in V.cost_entry : c.bill_id \in V.bill
    /\ \A i \in 1..Len(V.line_items) :
           /\ V.line_items[i].cost_entry_bill_id \in V.bill
           /\ V.line_items[i].cost_entry_id \in { c.id : c \in V.cost_entry }

\* the ids of the bills a call selected
SelectedBills(K) == { K.bill_objects[i].id : i \in 1..Len(K.bill_objects) }

\* C11: an executing purge that returns has removed every selected bill
\* with all cost entries and line items that refer to it and has left every
\* other row of every table as it was; within an iteration the line items
\* go before the cost entries, and the bills go last, so at no point of the
\* call does the session see a cost entry or line item whose parent is gone.
C11_CascadePurge ==
    /\ NoDanglingReference(CleanerSessionView(CleanerWorld))
    /\ (cleaner.pc = "loop" /\ cleaner.pos < Len(cleaner.bill_objects)) =>
           LET after_items == purge_bill_line_items(CleanerWorld)
               after_entries == purge_bill_cost_entries(after_items)
           IN  /\ NoDanglingReference(CleanerSessionView(after_items))
               /\ NoDanglingReference(CleanerSessionView(after_entries))
    /\ (cleaner.pc = "loop" /\ cleaner.pos = 0 /\ ~ cleaner.simulate) =>
           LET exec == purge_run(CleanerWorld)
               selected == SelectedBills(cleaner)
           IN  /\ exec.K.pc = "returned"
               /\ exec.tables.bill = { b \in tables.bill : b.id \notin selected }
               /\ exec.tables.cost_entry =
                      { c \in tables.cost_entry : c.bill_id \notin selected }
               /\ exec.line_items = SelectSeq(line_items,
                      LAMBDA item : item.cost_entry_bill_id \notin selected)
               /\ \A t \in TableNames \ {"bill", "cost_entry"} :
                      exec.tables[t] = tables[t]

\* an executing call has returned after removing one bill with its cost
\* entry and line items, and another bill is left with its line items
C11_Witness ==
    /\ cleaner.pc = "returned" /\ ~ cleaner.simulate
    /\ Len(cleaner.bill_objects) = 1
    /\ Cardinality(Durable(tables.bill)) = 1
    /\ Cardinality(Durable(tables.cost_entry)) = 1
    /\ nextid.cost_entry = 2
    /\ line_items # << >>

\* the status get_report_files reads for a file: a run of the file is in
\* flight and not stale, or a run of it has completed
InFlight(records, file_name, today) ==
    /\ get_last_started_datetime(records, file_name) # NoDate
    /\ get_last_completed_datetime(records, file_name) = NoDate
    /\ today < get_last_started_datetime(records, file_name)[1] + Timeout

Completed(records, file_name) ==
    /\ get_last_started_datetime(records, file_name) # NoDate
    /\ get_last_completed_datetime(records, file_name) # NoDate

\* the number of tasks of a list that are for a file
TasksFor(requests, file_name) ==
    Len(SelectSeq(requests,
                  LAMBDA request : basename(request.report_path) = file_name))

\* the number of reports of a list that are a file
ReportsOf(reports, file_name) ==
    Len(SelectSeq(reports, LAMBDA report : basename(report.file) = file_name))

\* the names of the downloaded report files
FileNames == { get_local_file_name(key) : key \in ReportKeys }

\* a call of get_report_files in the current state
GetReportFilesCall(fault) == get_report_files(ThisDl, now, fault)

\* C12: a call of get_report_files submits no processing task for a file
\* whose status has started-at set and completed-at unset with
\* now < started-at + 2 hours, and none for a file with started-at and
\* completed-at both set.
C12_SkipIfInProgress ==
    \A fault \in AllKeys \cup {NoFault} :
        LET call == GetReportFilesCall(fault)
        IN  \A file_name \in FileNames :
                (InFlight(call.D.stats, file_name, now)
                    \/ Completed(call.D.stats, file_name)) =>
                    TasksFor(call.submitted, file_name) = 0

\* a call has returned two reports and submitted no task: the run of one
\* file is in flight and the other file is completed
C12_Witness ==
    /\ sched.pc = "returned"
    /\ Len(sched.reports) = 2
    /\ sched.submitted = << >>
    /\ queue = << >>
    /\ task.pc = "running"
    /\ \E running, done \in FileNames :
           /\ running = basename(task.report_path)
           /\ InFlight(stats, running, now)
           /\ Completed(stats, done)
           /\ GetReportFilesCall(NoFault).submitted = << >>

\* the run of a file is stale: started, not completed, and the timeout
\* has passed
Stale(records, file_name, today) ==
    /\ get_last_started_datetime(records, file_name) # NoDate
    /\ get_last_completed_datetime(records, file_name) = NoDate
    /\ today >= get_last_started_datetime(records, file_name)[1] + Timeout

NeverStarted(records, file_name) ==
    /\ get_last_started_datetime(records, file_name) = NoDate
    /\ get_last_completed_datetime(records, file_name) = NoDate

\* a call of get_report_files that returns submits one task for every
\* report whose file is stale or was never started
OneTaskPerStaleFile ==
    \A fault \in AllKeys \cup {NoFault} :
        LET call == GetReportFilesCall(fault)
        IN  call.raised = "" =>
                \A file_name \in FileNames :
                    (ReportsOf(call.reports, file_name) > 0
                     /\ (Stale(call.D.stats, file_name, now)
                         \/ NeverStarted(call.D.stats, file_name))) =>
                        /\ ReportsOf(call.reports, file_name) = 1
                        /\ TasksFor(call.submitted, file_name) = 1

\* the run of a file has died: the file is started and not completed, no
\* worker runs it and no task for it waits, and the clock of the model
\* reaches the end of the timeout
RunDied(file_name) ==
    /\ get_last_started_datetime(stats, file_name) # NoDate
    /\ get_last_completed_datetime(stats, file_name) = NoDate
    /\ get_last_started_datetime(stats, file_name)[1] + Timeout <= MaxNow
    /\ ~ (task.pc = "running" /\ basename(task.report_path) = file_name)
    /\ TasksFor(queue, file_name) = 0

\* a task for the file waits in the process queue
Resubmitted(file_name) == TasksFor(queue, file_name) > 0

\* the clock advances
SpecTasksFair == SpecTasks /\ WF_vars(Tick)

\* the scheduler is invoked again and again, and again and again its
\* download succeeds and the call returns
SchedulerBeats == []<>(sched.beat = 0) /\ []<>(sched.beat = 1)

TaskFile == basename(task.report_path)

\* a row of the file raises in the transform of process()
TransformError(report_path) ==
    \E i \in 1..Len(Reader(report_path)) : Malformed(Reader(report_path)[i])

\* process() does not return normally from a file with such a row, nor
\* after a call of the store has raised
FailingRunNeverDone ==
    /\ (task.pc = "running" /\ proc["A"].pc = "done") =>
           ~TransformError(proc["A"].report_path)
    /\ (task.pc = "running" /\ proc["A"].pc = "failed") =>
           \/ proc["A"].ended_at \in StorePcs
           \/ TransformError(proc["A"].report_path)

\* a step of a running task: completed-at of its file is set only after
\* process() has returned, and the step that ends a failed or dead run
\* leaves the status records as they are, started-at set
FailedRunStep ==
    task.pc = "running" =>
        /\ get_last_completed_datetime(stats', TaskFile) #
              get_last_completed_datetime(stats, TaskFile) =>
                  proc["A"].pc = "done" /\ task'.pc = "completed"
        /\ task'.pc \in {"failed", "died"} =>
              /\ stats' = stats
              /\ get_last_started_datetime(stats, TaskFile) # NoDate

\* after a failed or dead run of a file that no run has completed, the
\* status is started-without-completed, and past the timeout a call of
\* get_report_files that returns submits the file again
FailedRunRetryable ==
    (/\ task.pc \in {"failed", "died"}
     /\ get_last_completed_datetime(stats, TaskFile) = NoDate) =>
        /\ get_last_started_datetime(stats, TaskFile) # NoDate
        /\ Stale(stats, TaskFile, now) =>
              LET call == GetReportFilesCall(NoFault)
              IN  call.raised = "" => TasksFor(call.submitted, TaskFile) = 1

\* C14: a processing run that fails mid-run (transform error or store
\* error) never sets completed-at for its file: completed-at is written
\* only after process() returned, which it does for no file with such an
\* error; the status stays at started-without-completed and the file is
\* submitted again by a call after the timeout.
C14_FailedRunNotCompleted ==
    /\ []FailingRunNeverDone
    /\ []FailedRunRetryable
    /\ [][FailedRunStep]_vars

\* a run has failed in the merge of its batch (store error), its file is
\* started without completed, past the timeout, and not in the queue
C14_Witness ==
    /\ task.pc = "failed"
    /\ proc["A"].pc = "idle"
    /\ task.failed_at = "store error"
    /\ Stale(stats, TaskFile, now)
    /\ TasksFor(queue, TaskFile) = 0
    /\ TasksFor(GetReportFilesCall(NoFault).submitted, TaskFile) = 1

(***************************************************************************)
(* C15: no manifest in the bucket.                                         *)
(***************************************************************************)
\* C15: when the manifest object of the period does not exist remotely
\* (NoSuchKey), download_report raises no error, returns an empty list,
\* creates or updates no manifest record and no status record, and
\* transfers no file, whatever report files the bucket holds and whatever
\* copy of an earlier manifest is on disk.
C15_FailSoftManifest ==
    remote[ManifestKey] = NoObject =>
        \A fault \in ReportKeys \cup {NoFault} :
            LET call == Invocation(fault)
            IN  /\ call.raised = ""
                /\ call.cur_reports = << >>
                /\ call.D.manifests = manifests
                /\ call.D.stats = stats
                /\ call.D.transfers = << >>
                /\ call.D.local_files = local_files

\* an invocation has returned nothing and transferred nothing while the
\* bucket holds no manifest but a report file that is not on disk, the
\* manifest of an earlier invocation still being on disk and on record
C15_Witness ==
    /\ dl.pc = "returned"
    /\ dl.cur_reports = << >>
    /\ dl.transfers = << >>
    /\ remote[ManifestKey] = NoObject
    /\ local_files[get_local_file_name(ManifestKey)] # NoFile
    /\ manifests # {}
    /\ \E key \in ReportKeys :
           /\ remote[key] # NoObject
           /\ local_files[get_local_file_name(key)] = NoFile

(***************************************************************************)
(* C16: the manifest record of (assembly id, provider id).                 *)
(***************************************************************************)
\* ReportManifestDBAccessor.get_manifest: the rows of the key
ManifestRows(records, assembly_id, provider_id) ==
    { m \in records : m.assembly_id = assembly_id /\ m.provider_id = provider_id }

\* no two manifest rows share (assembly id, provider id), none share an id
OneManifestPerKey ==
    \A m1, m2 \in manifests :
        \/ m1 = m2
        \/ /\ m1.id # m2.id
           /\ << m1.assembly_id, m1.provider_id >> # << m2.assembly_id, m2.provider_id >>

\* _process_manifest_db_record called in the current state, and once more
RecordTwice ==
    \A body \in RecordBodies, provider \in Providers :
        LET D == DlOf(provider)
            before == ManifestRows(manifests, body.assemblyId, provider)
            first == process_manifest_db_record(D, body)
            second == process_manifest_db_record(first.D, body)
            after == ManifestRows(first.D.manifests, body.assemblyId, provider)
        IN  /\ before # {} =>
                /\ first.D.manifests = manifests
                /\ \E m \in before : m.id = first.manifest_id
            /\ before = {} =>
                /\ manifests \subseteq first.D.manifests
                /\ first.D.manifests \ manifests = after
                /\ Cardinality(after) = 1
                /\ \A m \in after : m.id = first.manifest_id
                /\ \A m \in manifests : m.id # first.manifest_id
            /\ second.D.manifests = first.D.manifests
            /\ second.manifest_id = first.manifest_id

\* download_report invoked in the current state, and once more
InvokedTwice ==
    \A provider \in Providers :
        LET first == download_report(DlOf(provider), NoFault)
            second == download_report(first.D, NoFault)
        IN  first.raised = "" =>
                /\ second.cur_reports = first.cur_reports
                /\ second.D.manifests = first.D.manifests

\* a step keeps every manifest row and adds rows of new keys only
RowsKept ==
    /\ manifests \subseteq manifests'
    /\ \A m \in manifests' \ manifests :
           ManifestRows(manifests, m.assembly_id, m.provider_id) = {}

\* C16: over any sequence of download_report invocations,
\* _process_manifest_db_record creates a manifest row only when none exists
\* for (assembly id, provider id) and otherwise returns the identifier of the
\* existing row; at most one row exists per (assembly id, provider id), and
\* repeated invocations return the same manifest id.
C16_ManifestRecordIdempotent ==
    /\ [](OneManifestPerKey /\ RecordTwice /\ InvokedTwice)
    /\ [][RowsKept]_vars

\* both providers have a record of both assemblies, and the last invocation
\* returned the file with the identifier of the first record
C16_Witness ==
    /\ Cardinality(manifests) = 4
    /\ dl.pc = "returned"
    /\ Len(dl.cur_reports) = 1
    /\ dl.cur_reports[1].manifest_id = 1
    /\ \E m \in manifests :
           m.id = 1 /\ m.assembly_id = remote[ManifestKey].Body.assemblyId

(***************************************************************************)
(* C17, C18: the hash of a line item.                                      *)
(***************************************************************************)
\* the rows of the model
AllRows == Rows \cup { RowMalformed, RowReserved, RowRIFee, RowColonLeft, RowColonRight }

\* the mapped line item columns of a row, and the string and the hash
\* _create_cost_entry_line_item computes for it
LineItemData(row) == get_data_for_table(row, "line_item")
HashString(row) == create_line_item_hash_string(LineItemData(row))
HashOf(row) == hash_string_to_hex(HashString(row))

\* two rows of one bill and one interval, hence of one cost entry
SameCostEntry(r1, r2) ==
    /\ r1.interval = r2.interval
    /\ << r1.bill_type, r1.payer, r1.period >> = << r2.bill_type, r2.payer, r2.period >>

\* the mapped line item columns in which two rows differ
DifferIn(r1, r2) ==
    { column \in DOMAIN LineItemData(r1) :
        LineItemData(r1)[column] # LineItemData(r2)[column] }

\* the durable line items with the hash of a row
DurableWithHash(row) ==
    { k \in 1..Len(line_items) : line_items[k].hash = HashOf(row) }

\* C17: two rows of the same cost entry whose mapped line item fields are
\* identical except for invoice_id get the same hash, and once a run has
\* read a file that holds both they occupy a single durable line item row:
\* there is a row with their hash, and one only per cost entry.
C17_InvoiceIdIgnored ==
    /\ \A r1, r2 \in AllRows :
           (SameCostEntry(r1, r2) /\ DifferIn(r1, r2) = {"invoice_id"}) =>
               HashOf(r1) = HashOf(r2)
    /\ \A p \in Procs :
           Ended(p) =>
               \A i, j \in 1..Len(Reader(proc[p].report_path)) :
                   LET r1 == Reader(proc[p].report_path)[i]
                       r2 == Reader(proc[p].report_path)[j]
                   IN  (SameCostEntry(r1, r2) /\ DifferIn(r1, r2) = {"invoice_id"}) =>
                           /\ DurableWithHash(r1) # {}
                           /\ \A k1, k2 \in DurableWithHash(r1) :
                                  line_items[k1].cost_entry_id =
                                      line_items[k2].cost_entry_id => k1 = k2

\* a run with both rows in one batch has returned: the database holds one
\* line item, with the invoice id of the later row
C17_Witness ==
    /\ proc["A"].pc = "done"
    /\ proc["B"].pc = "idle"
    /\ Reader(proc["A"].report_path) = << BaseRow, RowInvoiced >>
    /\ proc["A"].batch_size = 2
    /\ Len(line_items) = 1
    /\ line_items[1].hash = HashOf(BaseRow)
    /\ line_items[1].invoice_id = "inv1"

\* C18: for any two rows of the same cost entry that differ in at least one
\* mapped line item column other than invoice_id, the strings fed to the
\* hasher differ, and a run that has processed a file holding both keeps
\* them as two distinct durable line item rows.
C18_OtherFieldChangesHash ==
    \A p \in Procs :
        proc[p].pc = "done" =>
            \A i, j \in 1..Len(Reader(proc[p].report_path)) :
                LET r1 == Reader(proc[p].report_path)[i]
                    r2 == Reader(proc[p].report_path)[j]
                IN  (SameCostEntry(r1, r2) /\ DifferIn(r1, r2) \ {"invoice_id"} # {}) =>
                        /\ HashString(r1) # HashString(r2)
                        /\ DurableWithHash(r1) # {}
                        /\ DurableWithHash(r2) # {}
                        /\ DurableWithHash(r1) \cap DurableWithHash(r2) = {}

(***************************************************************************)
(* C19: the example of three rows.                                         *)
(***************************************************************************)
\* a file of three rows of one bill and one interval, two of which differ
\* in the invoice id only
ThreeRowExample(report_path) ==
    /\ Len(Reader(report_path)) = 3
    /\ \A i, j \in 1..3 : SameCostEntry(Reader(report_path)[i], Reader(report_path)[j])
    /\ \E i, j \in 1..3 :
           /\ DifferIn(Reader(report_path)[i], Reader(report_path)[j]) = {"invoice_id"}
           /\ \A k \in 1..3 \ {i, j} :
                  DifferIn(Reader(report_path)[i], Reader(report_path)[k])
                      \ {"invoice_id"} # {}

NextRow(p) == Reader(proc[p].report_path)[proc[p].pos + 1]

\* a run is about to resolve the dimensions of a well-formed row
AtRow(p) ==
    /\ proc[p].pc = "row"
    /\ proc[p].pos < Len(Reader(proc[p].report_path))
    /\ ~ Malformed(NextRow(p))

\* the key under which each _create_* method looks the next row up
LookupKey(p) ==
    LET row == NextRow(p)
    IN  [ bill |-> << << row.bill_type, row.payer, row.period >> >>,
          cost_entry |-> << << RowDimensions(World(p), p).bill.id,
                               get_cost_entry_time_interval(row.interval)[1] >> >>,
          product |-> << << row.sku, row.pname, row.region >> >>,
          pricing |-> << PricingKey(get_data_for_table(row, "pricing")) >>,
          reservation |-> << row.arn >> ]

\* the in-run cache and the seeded map of each dimension
InRunCache(p) ==
    [ bill |-> proc[p].processed_report.bills,
      cost_entry |-> proc[p].processed_report.cost_entries,
      product |-> proc[p].processed_report.products,
      pricing |-> proc[p].processed_report.pricing,
      reservation |-> proc[p].processed_report.reservations ]

SeededMap(p) ==
    [ bill |-> proc[p].existing_bill_map,
      cost_entry |-> proc[p].existing_cost_entry_map,
      product |-> proc[p].existing_product_map,
      pricing |-> proc[p].existing_pricing_map,
      reservation |-> proc[p].existing_reservation_map ]

\* the key of the next row is in the cache or in the map of the dimension
KeyKnown(p, t) ==
    \/ LookupKey(p)[t][1] \in DOMAIN InRunCache(p)[t]
    \/ LookupKey(p)[t][1] \in DOMAIN SeededMap(p)[t]

\* the next row is a finalizing row and the dimension its reservation
Finalizing(p, t) == t = "reservation" /\ Lower(NextRow(p).li_type) = "rifee"

\* the identifier the lookup gives for a known key: the cache's before the
\* map's
Looked(p, t) ==
    IF LookupKey(p)[t][1] \in DOMAIN InRunCache(p)[t]
    THEN InRunCache(p)[t][LookupKey(p)[t][1]]
    ELSE SeededMap(p)[t][LookupKey(p)[t][1]]

\* the identifiers of the rows of a table, of whatever version
RowIdsOf(tbl) == { r.id : r \in tbl }

\* a create is issued only for a key that is in neither the cache nor the map
CreateOnlyIfAbsent ==
    \A p \in Procs : AtRow(p) =>
        \A t \in TableNames :
            RowDimensions(World(p), p)[t].created => ~ KeyKnown(p, t)

\* the same, but for the reservation of a finalizing row, which is written
\* whatever the cache and the map hold; a known key gives the cached or
\* seeded identifier and adds no row
CreateOnlyIfAbsentOrFinalizing ==
    \A p \in Procs : AtRow(p) =>
        \A t \in TableNames :
            LET d == RowDimensions(World(p), p)[t]
            IN  /\ d.created => (~ KeyKnown(p, t) \/ Finalizing(p, t))
                /\ (KeyKnown(p, t) /\ (t = "bill" => proc[p].bill_id = NoId)) =>
                       /\ d.id = Looked(p, t)
                       /\ d.nid = nextid[t]
                       /\ RowIdsOf(d.tbl) = RowIdsOf(tables[t])

\* the second run over a file the first run has fully processed
SecondRun == 
    /\ proc["A"].pc = "done"
    /\ proc["B"].pc # "idle"
    /\ proc["B"].report_path = proc["A"].report_path

\* a step of the second run adds no dimension row
SecondRunAddsNoRow ==
    SecondRun =>
        \A t \in TableNames :
            /\ RowIdsOf(tables'[t]) = RowIdsOf(tables[t])
            /\ nextid'[t] = nextid[t]

\* C20 as stated: each resolve-or-create issues a create only if the key is
\* absent in the in-run cache and in the seeded map, and a second run over a
\* fully processed file adds no Bill, CostEntry, Product, Pricing or
\* Reservation row.
C20_CreateOnlyIfAbsent ==
    []CreateOnlyIfAbsent /\ [][SecondRunAddsNoRow]_vars

\* C20, amended: each resolve-or-create checks the in-run cache, then the
\* seeded map, and issues a create only if the key is absent in both, except
\* that the reservation of a finalizing (RIFee) row is always written, which
\* for a known key rewrites the row and adds none; a second run over a fully
\* processed file adds no Bill, CostEntry, Product, Pricing or Reservation
\* row.
C20_RepeatedRunsCreateNoRows ==
    []CreateOnlyIfAbsentOrFinalizing /\ [][SecondRunAddsNoRow]_vars

\* the second run of the file of a reservation and its finalizing row has
\* returned: the finalizing row was written with its key in the seeded map,
\* and there is the one reservation of the first run
C20_Witness ==
    /\ proc["A"].pc = "done"
    /\ proc["B"].pc = "done"
    /\ proc["B"].report_path = proc["A"].report_path
    /\ Reader(proc["A"].report_path) = << RowReserved, RowRIFee >>
    /\ RowIdsOf(tables.reservation) = {1}
    /\ \A r \in tables.reservation : r.xid = Committed /\ r.number_of_reservations = "2"
    /\ \A t \in TableNames : nextid[t] <= 1

(***************************************************************************)
(* C21: an unsupported compression is rejected before any accessor.        *)
(***************************************************************************)
\* the compression kind of the last construction is outside the allowed set,
\* compared without regard to case
Unsupported ==
    /\ rp.pc # "none"
    /\ \A allowed \in ALLOWED_COMPRESSIONS :
           Upper(rp.args.compression) # Upper(allowed)

\* C21: constructing a ReportProcessor with a compression kind outside the
\* allowed set, compared case-insensitively, raises MasuProcessingError
\* before any database accessor is created or any identifier map is loaded,
\* and leaves no instance whose process() could open the report file; a
\* kind of the allowed set in any case is accepted.
C21_UnsupportedCompressionRejected ==
    /\ Unsupported =>
           /\ rp.pc = "MasuProcessingError"
           /\ rp.reached = << >>
           /\ get_file_opener(rp.compression) = << >>
    /\ (rp.pc # "none" /\ ~ Unsupported) =>
           /\ rp.pc = "constructed"
           /\ rp.compression \in ALLOWED_COMPRESSIONS
           /\ get_file_opener(rp.compression) # << >>

\* a construction with the kind 'zip' has raised
C21_Witness ==
    /\ rp.pc = "MasuProcessingError"
    /\ rp.args.compression = "zip"
    /\ rp.reached = << >>

(***************************************************************************)
(* C22: a row whose TimeInterval does not split ends the run.              *)
(***************************************************************************)
\* the rows of the file of run p
FileRows(p) == Reader(proc[p].report_path)

\* the number of rows of run p that were flushed in complete batches
\* before the run failed
Flushed(p) == proc[p].batch_size * (proc[p].pos \div proc[p].batch_size)

\* a run returns only from a file without such a row; a failed run stands
\* at the first such row, none before it
StopsAtMalformedRow ==
    \A p \in Procs :
        /\ proc[p].pc = "done" => ~ TransformError(proc[p].report_path)
        /\ (proc[p].pc = "failed" /\ proc[p].ended_at = "row") =>
               /\ proc[p].pos < Len(FileRows(p))
               /\ Malformed(FileRows(p)[proc[p].pos + 1])
               /\ \A i \in 1..proc[p].pos : ~ Malformed(FileRows(p)[i])

\* after the only run has failed, every durable line item and every cost
\* entry is that of a row of a batch flushed before the failing row
OnlyEarlierRowsStored ==
    \A p \in Procs :
        (/\ proc[p].pc = "failed"
         /\ \A q \in Procs \ {p} : proc[q].pc = "idle") =>
            /\ \A i \in 1..Len(line_items) :
                   \E j \in 1..Flushed(p) :
                       /\ line_items[i].hash = HashOf(FileRows(p)[j])
                       /\ CostEntryRef(ThisDB, line_items[i].cost_entry_id)[2] =
                              get_cost_entry_time_interval(FileRows(p)[j].interval)[1]
            /\ \A c \in tables.cost_entry :
                   \E j \in 1..Flushed(p) :
                       c.interval_start =
                           get_cost_entry_time_interval(FileRows(p)[j].interval)[1]
            /\ Len(line_items) <= Flushed(p)

\* a failed run takes no further step
FailedRunStops ==
    \A p \in Procs : proc[p].pc = "failed" => proc'[p] = proc[p]

\* C22: a row whose identity/TimeInterval is missing or does not split into
\* exactly a start and an end on "/" aborts process() with an error: the
\* row is never skipped, no line item is produced for it, and no later row
\* of the file is processed in that run.
C22_MalformedRowAborts ==
    [](StopsAtMalformedRow /\ OnlyEarlierRowsStored) /\ [][FailedRunStops]_vars

\* a run with batch size 1 has failed at the second row, one that has no
\* "/", after the first row was merged; the third row was not read
C22_Witness ==
    /\ proc["A"].pc = "failed"
    /\ proc["B"].pc = "idle"
    /\ FileRows("A") = << BaseRow, RowMalformed, RowOtherUsage >>
    /\ proc["A"].batch_size = 1
    /\ proc["A"].pos = 1
    /\ Len(line_items) = 1
    /\ line_items[1].hash = HashOf(BaseRow)

(***************************************************************************)
(* C23: the bill of each row.                                              *)
(***************************************************************************)
\* the business key of the bill of a row
RowBillKey(row) == BillKey(get_data_for_table(row, "bill"))

\* some durable line item of the row's content refers to the bill of the
\* row's own key, directly and through its cost entry
StoredUnderOwnBill(row) ==
    \E i \in 1..Len(line_items) :
        /\ line_items[i].hash = HashOf(row)
        /\ KeyOfId(tables.bill, line_items[i].cost_entry_bill_id, "bill") =
               << RowBillKey(row) >>
        /\ CostEntryRef(ThisDB, line_items[i].cost_entry_id) =
               << << RowBillKey(row) >>,
                  get_cost_entry_time_interval(row.interval)[1] >>

\* C23: for every row processed the Bill is resolved or created from that
\* row's own business key: once a run has returned, the line item of each
\* row of its file, and the cost entry of that line item, refer to the Bill
\* whose (bill type, payer account id, billing period start) are the row's,
\* also when the file holds rows of more than one bill.
C23_PerRowBillResolution ==
    \A p \in Procs :
        proc[p].pc = "done" =>
            \A i \in 1..Len(FileRows(p)) : StoredUnderOwnBill(FileRows(p)[i])

(***************************************************************************)
(* C24: a row without any field of a dimension.                            *)
(***************************************************************************)
\* the dimensions a line item may do without
OptionalDimensions == {"product", "pricing", "reservation"}

\* every field the row carries for the dimension is empty
NoFields(row, t) == AllEmpty(get_data_for_table(row, t))

\* the reference of a line item to a dimension
Reference(item, t) ==
    CASE t = "product" -> item.cost_entry_product_id
      [] t = "pricing" -> item.cost_entry_pricing_id
      [] t = "reservation" -> item.cost_entry_reservation_id

\* C24: for a row in which every extracted Product field is empty,
\* _create_cost_entry_product returns no identifier, whatever the in-run
\* cache and the seeded map contain, and the line item of the row has no
\* product reference; the same holds for Pricing and for Reservation.
C24_EmptyDimensionSkipped ==
    \A p \in Procs, t \in OptionalDimensions :
        /\ (AtRow(p) /\ NoFields(NextRow(p), t)) =>
               RowDimensions(World(p), p)[t].id = NoId
        /\ proc[p].pc = "done" =>
               \A j \in 1..Len(FileRows(p)), i \in 1..Len(line_items) :
                   (/\ NoFields(FileRows(p)[j], t)
                    /\ line_items[i].hash = HashOf(FileRows(p)[j])) =>
                       Reference(line_items[i], t) = NoId

(***************************************************************************)
(* C25: finalizing rows and the reservation of their ARN.                  *)
(***************************************************************************)
\* the row is of the finalizing type and carries reservation data
FinalizingRow(row) == Lower(row.li_type) = "rifee" /\ ~ NoFields(row, "reservation")

\* the attributes of a reservation row version
ReservationData(r) ==
    [ reservation_arn |-> r.reservation_arn,
      number_of_reservations |-> r.number_of_reservations ]

\* the next row of a run is a finalizing row: the upsert is issued whatever
\* the cache and the map hold, it leaves the session with a version of the
\* reservation that has the row's fields, and a reservation the session saw
\* under the ARN keeps its identifier, no row being added
FinalizingRowUpserts ==
    \A p \in Procs :
        (AtRow(p) /\ FinalizingRow(NextRow(p))) =>
            LET d == RowDimensions(World(p), p).reservation
                data == get_data_for_table(NextRow(p), "reservation")
                seen == { r \in Visible(tables.reservation, p) :
                            r.reservation_arn = NextRow(p).arn }
            IN  /\ d.created
                /\ \E r \in d.tbl : /\ r.xid = p
                                    /\ r.id = d.id
                                    /\ ReservationData(r) = data
                /\ \A r \in d.tbl : r.reservation_arn = NextRow(p).arn => r.id = d.id
                /\ \A r \in seen : r.id = d.id /\ d.nid = nextid.reservation
                /\ seen = {} => d.id = nextid.reservation + 1

\* the last finalizing row for an ARN in the file of a run, if there is one
LastFinalizing(p, arn) ==
    LET at == { j \in 1..Len(FileRows(p)) :
                  FinalizingRow(FileRows(p)[j]) /\ FileRows(p)[j].arn = arn }
    IN  IF at = {} THEN 0 ELSE CHOOSE j \in at : \A k \in at : k <= j

\* the run that returned last
LastRun == IF proc["B"].pc = "done" THEN "B" ELSE "A"

\* once a run has returned, the durable reservation of every ARN its file
\* has a finalizing row for carries the fields of the last such row
FinalizedReservationStored ==
    (proc[LastRun].pc = "done" /\ \A q \in Procs : ~ Active(q)) =>
        \A j \in 1..Len(FileRows(LastRun)) :
            LET row == FileRows(LastRun)[j]
            IN  (FinalizingRow(row) /\ LastFinalizing(LastRun, row.arn) = j) =>
                    /\ \E r \in Durable(tables.reservation) :
                           ReservationData(r) = get_data_for_table(row, "reservation")
                    /\ Cardinality({ r \in tables.reservation :
                                       r.reservation_arn = row.arn }) = 1

\* C25: a row whose line item type is the finalizing type (RIFee, compared
\* case-insensitively) and that carries reservation data always issues an
\* insert-or-update on the reservation ARN, even when the ARN is in the
\* in-run cache or the seeded map; afterwards the durable Reservation has
\* that row's reservation fields and its identifier is unchanged.
C25_FinalizingRowOverwrites ==
    FinalizingRowUpserts /\ FinalizedReservationStored

\* a run over a reservation and its finalizing row has returned: the
\* reservation created for the first row has the fields of the second
C25_Witness ==
    /\ proc["A"].pc = "done"
    /\ proc["B"].pc = "idle"
    /\ FileRows("A") = << RowReserved, RowRIFee, RowRIFeeUpper >>
    /\ tables.reservation =
           { [ id |-> 1, xid |-> Committed, reservation_arn |-> "arn1",
               number_of_reservations |-> "3" ] }

(***************************************************************************)
(* C26: the attributes of the dimension rows.                              *)
(***************************************************************************)
\* the dimensions whose rows are written once
WriteOnce == {"bill", "cost_entry", "product", "pricing"}

\* the rows of the file of run p that are in its unflushed batch
BatchRows(p) ==
    { FileRows(p)[j] :
        j \in (proc[p].pos - Len(proc[p].processed_report.line_items) + 1)
              ..proc[p].pos }

\* run p is in the batch of a finalizing row for the ARN
InFinalizingBatch(p, arn) ==
    /\ Active(p)
    /\ \E row \in BatchRows(p) : FinalizingRow(row) /\ row.arn = arn

\* no session holds a new version of a durable row, but one of a reservation
\* for whose ARN it has processed a finalizing row
NoPendingRewrite ==
    \A t \in TableNames :
        \A r \in tables[t] :
            (r.xid # Committed /\ \E c \in Durable(tables[t]) : c.id = r.id) =>
                /\ t = "reservation"
                /\ InFinalizingBatch(r.xid, r.reservation_arn)

\* a row that is not a finalizing row replaces no row version, and adds one
\* only under a key its session sees no row of
InsertIfAbsent ==
    \A p \in Procs :
        (AtRow(p) /\ ~ FinalizingRow(NextRow(p))) =>
            \A t \in TableNames :
                LET d == RowDimensions(World(p), p)[t]
                IN  /\ tables[t] \subseteq d.tbl
                    /\ \A r \in d.tbl \ tables[t] :
                           ~ \E v \in Visible(tables[t], p) :
                               KeyFor(t, v) = KeyFor(t, r)

\* a step leaves the attributes of every durable row as they are, but those
\* of a reservation in the commit of a batch with a finalizing row for its
\* ARN
AttributesKept ==
    \A t \in TableNames :
        \A r \in Durable(tables[t]), r2 \in Durable(tables'[t]) :
            (r.id = r2.id /\ r2 # r) =>
                /\ t = "reservation"
                /\ \E p \in Procs : /\ proc[p].pc = "commit"
                                    /\ proc'[p].pc = "bulk"
                                    /\ InFinalizingBatch(p, r.reservation_arn)

\* C26: across any sequence of processing runs the attributes of an existing
\* Bill, CostEntry, Product or Pricing row never change after creation, and
\* those of an existing Reservation change only while a finalizing (RIFee)
\* row for its ARN is processed; rows that are not finalizing only insert
\* if absent.
C26_DimensionsImmutable ==
    [](NoPendingRewrite /\ InsertIfAbsent) /\ [][AttributesKept]_vars

\* a run over two rows of one product and one pricing with different
\* attributes has returned: the product and the pricing are those of the
\* first row
C26_Witness ==
    /\ proc["A"].pc = "done"
    /\ proc["B"].pc = "idle"
    /\ FileRows("A") = << BaseRow, RowRetyped >>
    /\ Len(line_items) = 2
    /\ \A r \in tables.product : r.instance_type = "m4"
    /\ \A r \in tables.pricing : r.public_on_demand_rate = "0.1"
    /\ Cardinality(tables.product) = 1
    /\ Cardinality(tables.pricing) = 1

(***************************************************************************)
(* C27: the size of the batch.                                             *)
(***************************************************************************)
\* the line items run p has buffered and not yet flushed
Buffered(p) == Len(proc[p].processed_report.line_items)

\* the positions of _save_to_db and merge_temp_table
FlushPcs == {"commit", "bulk", "merge", "clear"}

\* the buffer never exceeds the batch size, is below it while rows are read,
\* and a flush is under way only with a full buffer or, at the end of the
\* file, with what is left, never with an empty one
BufferBounded ==
    \A p \in Procs :
        Active(p) =>
            /\ Buffered(p) <= proc[p].batch_size
            /\ proc[p].pc = "row" => Buffered(p) < proc[p].batch_size
            /\ proc[p].pc \in FlushPcs =>
                   /\ Buffered(p) > 0
                   /\ \/ ~ proc[p].final /\ Buffered(p) = proc[p].batch_size
                      \/ proc[p].final /\ proc[p].pos = Len(FileRows(p))
            /\ proc[p].pc = "update" => ~ proc[p].final

\* the step of a run that reads a row starts the flush exactly when the
\* buffer has reached the batch size, and the step at the end of the file
\* starts it exactly when the buffer is not empty
FlushTriggered ==
    \A p \in Procs :
        (proc[p].pc = "row" /\ proc'[p] # proc[p] /\ proc'[p].pc \notin {"aborted", "failed"}) =>
            IF proc[p].pos < Len(FileRows(p))
            THEN /\ Buffered(p)' = Buffered(p) + 1
                 /\ proc'[p].pc = IF Buffered(p)' = proc[p].batch_size
                                  THEN "commit" ELSE "row"
            ELSE IF Buffered(p) > 0
            THEN proc'[p].pc = "commit" /\ proc'[p].final /\ Buffered(p)' = Buffered(p)
            ELSE proc'[p].pc = "done"

\* C27: at every point of process() the number of buffered line items is at
\* most the batch size; a flush-and-merge is triggered as soon as the buffer
\* reaches the batch size and once more at the end of the file if the buffer
\* is not empty, and never on an empty buffer.
C27_BatchBound ==
    []BufferBounded /\ [][FlushTriggered]_vars

\* a run of three rows with batch size 2 flushes the one row left at the
\* end of the file, the first two being merged
C27_Witness ==
    /\ proc["A"].pc = "merge"
    /\ proc["A"].final
    /\ proc["A"].batch_size = 2
    /\ proc["A"].pos = 3
    /\ Buffered("A") = 1
    /\ Len(line_items) >= 1

(***************************************************************************)
(* C28: every row of a returned run is staged once and merged.             *)
(***************************************************************************)
\* the key of the bill of the run: that of the first row of its file
RunBillKey(p) == RowBillKey(FileRows(p)[1])

\* the staging area holds nothing while rows are read and when a batch is
\* about to be loaded, and after the load exactly the line items of the
\* batch: those of the rows read since the last flush, which began at a
\* multiple of the batch size
StagedOnce ==
    \A p \in Procs :
        Active(p) =>
            /\ (proc[p].pos - Buffered(p)) % proc[p].batch_size = 0
            /\ proc[p].pc \in {"row", "commit", "bulk", "update"} =>
                   proc[p].temp_table = << >>
            /\ proc[p].pc \in {"merge", "clear"} =>
                   /\ proc[p].temp_table = proc[p].processed_report.line_items
                   /\ \A k \in 1..Buffered(p) :
                          proc[p].temp_table[k].hash =
                              HashOf(FileRows(p)[proc[p].pos - Buffered(p) + k])

\* a run that returned has read every row, left nothing staged or buffered,
\* and the durable table holds for every row a line item of its hash under
\* the cost entry of the run's bill and the row's interval
AllRowsPersisted ==
    \A p \in Procs :
        proc[p].pc = "done" =>
            /\ proc[p].pos = Len(FileRows(p))
            /\ proc[p].temp_table = << >>
            /\ Buffered(p) = 0
            /\ \A j \in 1..Len(FileRows(p)) :
                   \E i \in 1..Len(line_items) :
                       /\ line_items[i].hash = HashOf(FileRows(p)[j])
                       /\ CostEntryRef(ThisDB, line_items[i].cost_entry_id) =
                              << << RunBillKey(p) >>,
                                 get_cost_entry_time_interval(
                                     FileRows(p)[j].interval)[1] >>

\* C28: when process() returns normally, every row of the file has been
\* loaded into staging in exactly one batch and merged, so that the durable
\* table holds a line item for the (hash, cost_entry_id) of every row, and
\* the staging area is empty: each merge is followed by the clearing of the
\* staging area before the next batch is loaded.
C28_CompletePersistence ==
    StagedOnce /\ AllRowsPersisted

\* a run of three different rows in batches of two and one has returned
C28_Witness ==
    /\ proc["A"].pc = "done"
    /\ proc["B"].pc = "idle"
    /\ FileRows("A") = << RowReserved, RowRIFee, RowRIFeeUpper >>
    /\ proc["A"].batch_size = 2
    /\ Len(line_items) = 3

(***************************************************************************)
(* C29: the conflict rule of the merge.                                    *)
(***************************************************************************)
\* the staged rows with the conflict key of a row, and the last of them
StagedAt(staged, row) ==
    { k \in 1..Len(staged) : ConflictKey(staged[k]) = ConflictKey(row) }
LastStaged(staged, row) ==
    staged[CHOOSE k \in StagedAt(staged, row) : \A m \in StagedAt(staged, row) : m <= k]

\* the conflict keys of a table
KeysOf(items) == { ConflictKey(items[i]) : i \in 1..Len(items) }

\* the merge of staged into durable gives merged: the durable rows keep their
\* places, those whose key is staged with all columns of the last staged
\* row of the key and the others as they were, and after them comes one row
\* for every staged key that was not present, equal to the last staged row
\* of the key
ConflictRule(durable, staged, merged) ==
    /\ Len(merged) = Len(durable) + Cardinality(KeysOf(staged) \ KeysOf(durable))
    /\ \A i \in 1..Len(durable) :
           merged[i] = IF StagedAt(staged, durable[i]) # {}
                       THEN LastStaged(staged, durable[i])
                       ELSE durable[i]
    /\ \A k \in 1..Len(staged) :
           \E i \in 1..Len(merged) : merged[i] = LastStaged(staged, staged[k])
    /\ \A i, j \in 1..Len(merged) :
           (i > Len(durable) /\ j > Len(durable) /\ i # j) =>
               ConflictKey(merged[i]) # ConflictKey(merged[j])

CarriedInto(batch, map) ==
    \A key \in DOMAIN batch : key \in DOMAIN map /\ map[key] = batch[key]

\* the step of p is its _update_mappings
UpdatesMappings(p) == proc[p].pc = "update" /\ proc'[p].pc = "row"

\* _update_mappings carries the batch's cost entries, products, pricing
\* and reservations forward
OtherDimensionsCarried ==
    \A p \in Procs :
        UpdatesMappings(p) =>
            /\ CarriedInto(proc[p].processed_report.cost_entries,
                           proc'[p].existing_cost_entry_map)
            /\ CarriedInto(proc[p].processed_report.products,
                           proc'[p].existing_product_map)
            /\ CarriedInto(proc[p].processed_report.pricing,
                           proc'[p].existing_pricing_map)
            /\ CarriedInto(proc[p].processed_report.reservations,
                           proc'[p].existing_reservation_map)

\* _update_mappings carries the batch's bills forward
BillsCarried ==
    \A p \in Procs :
        UpdatesMappings(p) =>
            CarriedInto(proc[p].processed_report.bills, proc'[p].existing_bill_map)

\* _update_mappings leaves every batch container empty
ContainersEmptied ==
    \A p \in Procs :
        UpdatesMappings(p) => proc'[p].processed_report = EmptyReport

\* no step of a run takes a key out of a carried-forward map or changes
\* its identifier
NeverRemoved ==
    \A p \in Procs :
        (proc[p].pc \in ActivePcs /\ proc'[p].pc \in ActivePcs) =>
            /\ CarriedInto(proc[p].existing_bill_map, proc'[p].existing_bill_map)
            /\ CarriedInto(proc[p].existing_cost_entry_map,
                           proc'[p].existing_cost_entry_map)
            /\ CarriedInto(proc[p].existing_product_map,
                           proc'[p].existing_product_map)
            /\ CarriedInto(proc[p].existing_pricing_map,
                           proc'[p].existing_pricing_map)
            /\ CarriedInto(proc[p].existing_reservation_map,
                           proc'[p].existing_reservation_map)

\* what holds of _update_mappings: four of the five dimension types
C30_OtherDimensions ==
    [][OtherDimensionsCarried /\ ContainersEmptied /\ NeverRemoved]_vars

\* C30: after _update_mappings every identifier created during the batch,
\* for each of bill, cost entry, product, pricing and reservation, is in the
\* carried-forward map of its type and all batch containers, the line item
\* buffer included, are empty; identifiers already in the carried-forward
\* maps are never removed during a run.
C30_CacheCarryForward ==
    [][BillsCarried /\ OtherDimensionsCarried /\ ContainersEmptied
         /\ NeverRemoved]_vars

(***************************************************************************)
(* C31: what the hash of a line item covers.                               *)
(***************************************************************************)
\* the keys of the product, pricing and reservation a row refers to
ReferenceKeys(row) ==
    << << row.sku, row.pname, row.region >>, << row.term, row.unit >>, row.arn >>

\* two rows of one cost entry with the same mapped line item columns and
\* other tags or another product, pricing or reservation
DifferBesideColumns(r1, r2) ==
    /\ SameCostEntry(r1, r2)
    /\ DifferIn(r1, r2) = {}
    /\ \/ process_tags(r1) # process_tags(r2)
       \/ ReferenceKeys(r1) # ReferenceKeys(r2)

\* C31: two rows of the same cost entry that agree on every mapped line
\* item column but differ in their tag columns or in their product, pricing
\* or reservation reference get different hashes, and a run that has
\* processed a file holding both has stored them as two distinct line item
\* rows.
C31_HashCoversTagsAndReferences ==
    \A p \in Procs :
        proc[p].pc = "done" =>
            \A i, j \in 1..Len(FileRows(p)) :
                DifferBesideColumns(FileRows(p)[i], FileRows(p)[j]) =>
                    /\ HashOf(FileRows(p)[i]) # HashOf(FileRows(p)[j])
                    /\ \E k1, k2 \in 1..Len(line_items) :
                           /\ k1 # k2
                           /\ line_items[k1].cost_entry_id = line_items[k2].cost_entry_id
                           /\ line_items[k1].tags = process_tags(FileRows(p)[i])
                           /\ line_items[k2].tags = process_tags(FileRows(p)[j])

(***************************************************************************)
(* C32: the purge and its one commit.                                      *)
(***************************************************************************)
\* the step commits the call: the call returns in execute mode
PurgeCommits ==
    cleaner.pc = "loop" /\ cleaner'.pc = "returned" /\ ~ cleaner.simulate

\* the durable tables after the step are those before it without the bills
\* the call selected, their cost entries and their line items
CandidatesRemoved ==
    LET selected == { cleaner.bill_objects[i].id : i \in 1..Len(cleaner.bill_objects) }
    IN  /\ Durable(tables'.bill) =
               { b \in Durable(tables.bill) : b.id \notin selected }
        /\ Durable(tables'.cost_entry) =
               { c \in Durable(tables.cost_entry) : c.bill_id \notin selected }
        /\ line_items' = SelectSeq(line_items,
               LAMBDA item : item.cost_entry_bill_id \notin selected)

\* a step of a call under way either commits it, with every candidate
\* removed, or leaves the durable Bill, CostEntry and LineItem rows alone
CommitsOnceAtEnd ==
    (CleanerStep /\ cleaner.pc = "loop") =>
        IF PurgeCommits
        THEN /\ cleaner.pos = Len(cleaner.bill_objects)
             /\ CandidatesRemoved
        ELSE /\ tables' = tables
             /\ line_items' = line_items

\* C32: an executing purge commits exactly once, after the line items and
\* cost entries of all candidate bills and the bills themselves have been
\* deleted; if a step fails before that commit, no Bill, CostEntry or
\* LineItem has been durably removed.
C32_PurgeAllOrNothing == [][CommitsOnceAtEnd]_vars

\* an executing call failed after the iteration of its first bill, which
\* had a line item: the bill, its cost entry and the line item are stored
C32_Witness ==
    /\ cleaner.pc = "aborted" /\ ~ cleaner.simulate
    /\ cleaner.pos >= 1
    /\ \E b \in Durable(tables.bill) : b.id = cleaner.bill_objects[1].id
    /\ \E c \in Durable(tables.cost_entry) : c.bill_id = cleaner.bill_objects[1].id
    /\ \E i \in 1..Len(line_items) :
           line_items[i].cost_entry_bill_id = cleaner.bill_objects[1].id

(***************************************************************************)
(* C33: the shared dimensions under a purge.                               *)
(***************************************************************************)
SharedDimensions == {"product", "pricing", "reservation"}

\* no step of a call, whatever its arguments and its mode, changes the
\* Product, Pricing or Reservation table
DimensionsKept ==
    CleanerStep => \A t \in SharedDimensions : tables'[t] = tables[t]

\* C33: purge_expired_report_data, in either mode and with either selector,
\* leaves the Product, Pricing and Reservation tables unchanged, even when
\* every LineItem that refers to a dimension row is deleted.
C33_SharedDimensionsSurvive == [][DimensionsKept]_vars

\* an executing call has returned after deleting every line item, and a
\* product and a pricing row that no line item refers to are stored
C33_Witness ==
    /\ cleaner.pc = "returned" /\ ~ cleaner.simulate
    /\ cleaner.removed_items # << >>
    /\ line_items = << >>
    /\ Durable(tables.product) # {}
    /\ Durable(tables.pricing) # {}

(***************************************************************************)
(* C34: a remote error while a listed report file is fetched.              *)
(***************************************************************************)
\* the keys the manifest in the bucket lists
ListedKeys == remote[ManifestKey].Body.reportKeys

\* get_object fails for the i-th listed key: the key is missing, or the
\* bucket answers with another error
FetchFails(i, fault) == fault = ListedKeys[i] \/ remote[ListedKeys[i]] = NoObject

\* the exception download_file raises for a key whose fetch fails
ErrorFor(key, fault) ==
    IF fault = key THEN "AWSReportDownloaderError"
    ELSE "AWSReportDownloaderNoFileError"

\* download_file for a key whose fetch fails raises the typed error and
\* leaves the bucket, the directory and the list of transfers as they were
TypedFailure(key, fault) ==
    LET r == download_file(ThisDl, key, RecordedTag(ThisDl, key), fault)
    IN  /\ r.raised = ErrorFor(key, fault)
        /\ r.D = ThisDl

CleanupCall == cur_dir'.pc # "idle" /\ cur_dir' # cur_dir

\* the files the call removed: those that left the directory in the step,
\* less those remove() did not find
RemovedByCall == (cur_dir.files \ cur_dir'.files) \ cur_dir'.missing

\* before the call the file had a completed-at timestamp on the record of
\* the manifest the call was given
CompletedFor(file, manifest_id) ==
    \E r \in cur_dir.stats :
        /\ r.report_name = file
        /\ r.manifest_id = manifest_id
        /\ r.last_completed_datetime # NoDate

\* the file is a manifest file; the assembly ids in the name of a file
IsManifest(file) == file[Len(file)] = "Manifest.json"
NamedAfter(file) == { file[i] : i \in 1..Len(file) } \cap Uuids

\* the assembly ids of the manifest files in the directory before the call
CurrentAssemblies ==
    IF \E file \in cur_dir.files : IsManifest(file)
    THEN {cur_dir.manifest_json.assemblyId} \cap Uuids
    ELSE {}

\* a call removes completed files of other assemblies only, no manifest
\* file, and returns the files it removed
ConservativeCleanup ==
    CleanupCall =>
        /\ \A file \in RemovedByCall :
               /\ CompletedFor(file, cur_dir'.manifest_id)
               /\ ~ IsManifest(file)
               /\ NamedAfter(file) # {}
               /\ NamedAfter(file) \cap CurrentAssemblies = {}
        /\ \A file \in cur_dir.files \ cur_dir'.files :
               ~ IsManifest(file) /\ CompletedFor(file, cur_dir'.manifest_id)
        /\ cur_dir'.files \subseteq cur_dir.files
        /\ cur_dir'.removed_files = RemovedByCall

\* C35: remove_temp_cur_files removes a file only if it has a completed-at
\* timestamp for the given manifest and the assembly id in its name differs
\* from the assembly id of the manifest file in the directory; it never
\* removes a manifest file, a file that has not completed processing or a
\* file of the current assembly, and it returns exactly the files it
\* removed.
C35_ConservativeCleanup == [][ConservativeCleanup]_vars

\* a call for manifest 1 has removed the completed file of assembly a2 and
\* returned it; the manifest of a1, the completed file of a1 and a file
\* that has not completed are still in the directory
C35_Witness ==
    /\ cur_dir.pc = "returned" /\ cur_dir.manifest_id = 1
    /\ cur_dir.removed_files = { << "a2", "-", "cur-1.csv" >> }
    /\ cur_dir.missing = {}
    /\ cur_dir.manifest_json.assemblyId = "a1"
    /\ cur_dir.files = { ManifestName, << "a1", "-", "cur-1.csv" >>, << "cur-1.csv" >> }
    /\ get_last_completed_datetime(StatsOf(cur_dir.stats, 1),
                                   << "a1", "-", "cur-1.csv" >>) # NoDate
    /\ get_last_completed_datetime(StatsOf(cur_dir.stats, 1), << "cur-1.csv" >>) = NoDate

(***************************************************************************)
(* C36: the bills a purge selects.                                         *)
(***************************************************************************)
\* the bill is within the selector of the call under way
InScope(bill) ==
    IF cleaner.expired_date # NoDate
    THEN bill.billing_period_start < cleaner.expired_date[1]
    ELSE bill.provider_id = cleaner.provider_id

ScopedBills == { b \in Durable(tables.bill) : InScope(b) }

\* the list has one entry for every bill of the set, with the payer account
\* and the start of the billing period of the bill
ListsExactly(removed_items, bills) ==
    /\ Len(removed_items) = Cardinality(bills)
    /\ \E order \in [ 1..Len(removed_items) -> bills ] :
           /\ \A i, j \in 1..Len(removed_items) : i # j => order[i] # order[j]
           /\ \A i \in 1..Len(removed_items) :
                  /\ removed_items[i].account_payer_id = order[i].payer_account_id
                  /\ removed_items[i].billing_period_start =
                         ToString(order[i].billing_period_start)

\* C36: with a provider id purge_expired_report_data removes and reports
\* only the bills of that provider, with a cutoff date only the bills whose
\* billing period starts before the cutoff; the returned list has exactly
\* one entry per selected bill, with the bill's payer account id and the
\* start of its billing period.
C36_SelectorScoping ==
    (cleaner.pc = "loop" /\ cleaner.pos = 0) =>
        \A simulate \in BOOLEAN :
            LET call == RestOfPurge(simulate)
            IN  /\ call.K.pc = "returned"
                /\ ListsExactly(call.K.removed_items, ScopedBills)
                /\ Durable(call.tables.bill) =
                       IF simulate THEN Durable(tables.bill)
                       ELSE Durable(tables.bill) \ ScopedBills

\* an executing call with cutoff 2 has returned the bill of period 1 and
\* removed it; the bill of period 2 is still stored
C36_Witness ==
    /\ cleaner.pc = "returned" /\ ~ cleaner.simulate
    /\ cleaner.expired_date = << 2 >>
    /\ Len(cleaner.removed_items) = 1
    /\ cleaner.removed_items[1].billing_period_start = ToString(1)
    /\ \A b \in Durable(tables.bill) : b.billing_period_start = 2
    /\ Durable(tables.bill) # {}

(***************************************************************************)
(* C37: two invocations record one manifest at the same time.              *)
(***************************************************************************)
\* the invocations that have left the method for one key got one id, and
\* none of them failed
SameManifestId ==
    \A i, j \in Procs :
        /\ recording[i].pc # "IntegrityError"
        /\ (/\ recording[i].pc = "returned" /\ recording[j].pc = "returned"
            /\ recording[i].assembly_id = recording[j].assembly_id
            /\ recording[i].provider_id = recording[j].provider_id) =>
               recording[i].manifest_id = recording[j].manifest_id

\* C37: when two download_report invocations for the same (assembly id,
\* provider id) interleave the get_manifest lookup and the add of
\* _process_manifest_db_record, at most one Manifest row exists for that key
\* afterwards and both invocations return the same manifest id.
C37_ConcurrentManifestRecording == OneManifestPerKey /\ SameManifestId

(***************************************************************************)
(* C38: a purge while a processing run stores a bill.                      *)
(***************************************************************************)
\* a bill within the selector of the call under way was committed after
\* the call had listed its bills
NewBillArrived ==
    \E b \in Durable(tables.bill) : InScope(b) /\ b.id \notin SelectedBills(cleaner)

\* the step ends an executing call that has been through its loop
PurgeEnds ==
    /\ cleaner.pc = "loop" /\ cleaner'.pc # "loop"
    /\ cleaner.pos = Len(cleaner.bill_objects)
    /\ ~ cleaner.simulate

\* the bills the step deleted
DeletedBills == { b.id : b \in Durable(tables.bill) \ Durable(tables'.bill) }

\* after the step every stored cost entry and line item refers to a stored
\* bill
NoOrphanAfter ==
    LET bills == { b.id : b \in Durable(tables'.bill) }
    IN  /\ \A c \in Durable(tables'.cost_entry) : c.bill_id \in bills
        /\ \A i \in 1..Len(line_items') : line_items'[i].cost_entry_bill_id \in bills

ConsistentUnderIngestion ==
    (PurgeEnds /\ NewBillArrived) =>
        /\ cleaner'.pc = "returned"
        /\ DeletedBills = SelectedBills(cleaner')
        /\ NoOrphanAfter

\* C38: when a processing run inserts a new bill matching the selector of
\* the purge, with cost entries and line items, between the cleaner's
\* enumeration of the candidate bills and its final bulk delete of the
\* bills, the set of bills deleted still equals the set reported in the
\* return value, and after the commit no cost entry or line item refers to
\* a bill that no longer exists.
C38_PurgeUnderIngestion == [][ConsistentUnderIngestion]_vars

(***************************************************************************)
(* C39: two calls of get_report_files that list the same file.             *)
(***************************************************************************)
\* the workers that are in a run of the file that is not stale: the run
\* has been started, has not ended, and the start logged for the file is
\* less than the timeout ago
RunsInFlight(file_name) ==
    { w \in { << "first", task >>, << "second", task2 >> } :
        /\ w[2].pc = "running"
        /\ basename(w[2].report_path) = file_name
        /\ get_last_started_datetime(stats, file_name) # NoDate
        /\ now < get_last_started_datetime(stats, file_name)[1] + Timeout }

\* C39: under any interleaving of two get_report_files invocations that
\* both list the same file (status check, task submission, and the later
\* marking of started-at by the processing task), at most one processing
\* run for that file is in flight and not stale at any time.
C39_SingleInFlightRun ==
    \A file_name \in FileNames : Cardinality(RunsInFlight(file_name)) <= 1

(***************************************************************************)
(* C40: a completed file and the calls of get_report_files after it.       *)
(***************************************************************************)
\* a call of get_report_files from the current state, however its download
\* ends, submits no task for a file whose status has both dates
NoTaskForCompleted ==
    \A fault \in AllKeys \cup {NoFault}, file_name \in FileNames :
        Completed(stats, file_name) =>
            TasksFor(GetReportFilesCall(fault).submitted, file_name) = 0

\* over a step the status of a file that has both dates keeps both, and the
\* process queue gains no task for the file
CompletedStays ==
    \A file_name \in FileNames :
        Completed(stats, file_name) =>
            /\ Completed(stats', file_name)
            /\ TasksFor(queue', file_name) <= TasksFor(queue, file_name)

\* C40: once a file's status has both started-at and completed-at set, no
\* later get_report_files invocation submits a processing task for that
\* file name, even if the downloader has just re-transferred it because its
\* remote content tag changed, and even if started-at is later than
\* completed-at.
C40_CompletedStaysCompleted == [] NoTaskForCompleted /\ [][CompletedStays]_vars

\* a file is completed, its last start later than its last completion, and
\* its content in the bucket has changed since it was transferred: a call
\* of get_report_files now lists the file, transfers the new content and
\* submits nothing
C40_Witness ==
    \E key \in ReportKeys :
        LET file_name == get_local_file_name(key)
            call == GetReportFilesCall(NoFault)
        IN  /\ Completed(stats, file_name)
            /\ get_last_started_datetime(stats, file_name)[1]
                   > get_last_completed_datetime(stats, file_name)[1]
            /\ remote[key] = ReportObject("e2")
            /\ \E r \in status_record(stats, file_name) : r.etag = "e1"
            /\ local_files[file_name].csv = "e1"
            /\ call.raised = ""
            /\ ReportsOf(call.reports, file_name) = 1
            /\ call.D.local_files[file_name].csv = "e2"
            /\ \E r \in status_record(call.D.stats, file_name) : r.etag = "e2"
            /\ call.submitted = << >>

====
